---------------------------- MODULE Spec2Model ----------------------------
(***************************************************************************)
(* A model of the meal-plan selection engine of nutrivo:                   *)
(*   app/services/planner.py          MealPlanner (selection loop)         *)
(*   app/services/reranker_service.py RerankerService (rerank + cache)     *)
(*   app/services/scoring.py          score_recipe                         *)
(*                                                                         *)
(* Spec       one run of MealPlanner.generate_meal_plan, slot by slot.     *)
(* SpecRerank a sequence of calls of RerankerService.rerank and            *)
(*            rerank_batch on the shared service, with the clock moving.   *)
(*                                                                         *)
(* Floats are modelled as exact rationals: a ranking value is a pair       *)
(* <<num, den>> with den > 0.  Recipe ids are strings; Python orders them  *)
(* lexicographically, which IdOrd reproduces for the ids of the model.     *)
(***************************************************************************)
EXTENDS Integers, Sequences, FiniteSets, TLC

\* ------------------------------------------------------------------ bounds
\* Days of the plan: parsed.days ranges over 1..MaxDays.
MaxDays == 2
\* The clock of SpecRerank runs over 0..MaxClock.
MaxClock == 2
\* The cache time-to-live of SpecRerank ranges over 0..MaxTtl.
MaxTtl == 1
\* The clock of SpecLimiter runs over 0..MaxWindowClock.
MaxWindowClock == 121

\* --------------------------------------------------------- program constants
DEFAULT_MEAL_QUICK_MINUTES == 20
DEFAULT_RERANK_TOP_K == 10
RATE_LIMIT == 60
RATE_LIMIT_WINDOW_SECONDS == 60

\* Python's None, for ids, reasons and results.
None == "None"

\* ------------------------------------------------------------ the catalogue
\* The recipes the candidate source holds.  A recipe is listed for a meal type
\* when its dish types hold it (LocalSource._matches_meal_type).
RecipeIds == {"A", "B", "C", "D"}

\* The order of the lexicographic comparison of the id strings.
IdOrd(id) == CASE id = "A" -> 1 [] id = "B" -> 2 [] id = "C" -> 3 [] id = "D" -> 4
               [] OTHER -> 9

\* The order in which the source lists its recipes (not sorted by id).
SourceOrder == <<"B", "A", "D", "C">>

\* tokens: scoring._ingredient_tokens of the ingredients (alphabetic runs);
\* ptokens: MealPlanner._ingredient_tokens of them (whitespace-separated words).
Recipe(id) ==
  CASE id = "A" ->
         [id |-> "A", ready_in_minutes |-> 15, protein |-> 3, carbs |-> 2, fat |-> 1,
          dish_types |-> {"breakfast"}, n_ingredients |-> 3,
          tokens |-> {"chicken", "salt", "oil"}, ptokens |-> {"chicken", "salt,", "oil"},
          text |-> {}]
    [] id = "B" ->
         [id |-> "B", ready_in_minutes |-> 15, protein |-> 3, carbs |-> 2, fat |-> 1,
          dish_types |-> {"breakfast", "lunch"}, n_ingredients |-> 3,
          tokens |-> {"chicken", "salt", "oil"}, ptokens |-> {"chicken", "salt,", "oil"},
          text |-> {}]
    [] id = "C" ->
         [id |-> "C", ready_in_minutes |-> 45, protein |-> 1, carbs |-> 9, fat |-> 0,
          dish_types |-> {"lunch"}, n_ingredients |-> 2,
          tokens |-> {"rice", "beans"}, ptokens |-> {"rice", "beans"},
          text |-> {"healthy"}]
    [] OTHER ->
         [id |-> "D", ready_in_minutes |-> 30, protein |-> 2, carbs |-> 3, fat |-> 2,
          dish_types |-> {"dinner", "snack"}, n_ingredients |-> 2,
          tokens |-> {"salmon", "oil"}, ptokens |-> {"salmon", "oil"},
          text |-> {}]

\* LocalSource._contains_excluded: an excluded word occurs in the ingredients.
_contains_excluded(id, exclude) == Recipe(id).tokens \cap exclude # {}

\* The exclusions of a query: none, or the main ingredient of the recipes A
\* and B, which leaves no breakfast.
ExcludeChoices == {{}, {"chicken"}}

\* ------------------------------------------------------------- preferences
\* A soft preference, by what the code's string tests read from it.
\*   kind "keyword"     matched against the recipe text only ("healthy")
\*   kind "tag"         one of high-protein, low-carb, quick, budget-friendly
\*   kind "under"       "under-N-minutes"
\*   kind "meal-under"  "<meal>-under-N-minutes"
\*   kind "meal-quick"  "<meal>-quick"
Pref(kind, name, meal, minutes) ==
  [kind |-> kind, name |-> name, meal |-> meal, minutes |-> minutes]

PreferenceChoices ==
  { <<>>,
    <<Pref("tag", "high-protein", None, 0), Pref("meal-quick", "lunch-quick", "lunch", 0),
      Pref("meal-quick", "dinner-quick", "dinner", 0)>> }

SeqToSet(s) == {s[i] : i \in 1..Len(s)}
Min(a, b) == IF a < b THEN a ELSE b
Max(a, b) == IF a > b THEN a ELSE b

\* scoring._extract_quick_threshold: the first "under-N-minutes" (the regular
\* expression also finds it inside "<meal>-under-N-minutes"), else 20 for a
\* bare "quick", else None (0 here: no threshold).
HasQuickThreshold(preferences) ==
  \/ \E i \in 1..Len(preferences) : preferences[i].kind \in {"under", "meal-under"}
  \/ \E i \in 1..Len(preferences) : preferences[i].name = "quick"

QuickThreshold(preferences) ==
  LET unders == {i \in 1..Len(preferences) : preferences[i].kind \in {"under", "meal-under"}}
  IN IF unders # {}
       THEN preferences[CHOOSE i \in unders : \A j \in unders : i <= j].minutes
       ELSE 20

\* MealPlanner._extract_meal_time_limit: 0 stands for None (both are falsy).
RECURSIVE MealTimeLimitFrom(_, _, _)
MealTimeLimitFrom(preferences, m_type, i) ==
  IF i > Len(preferences) THEN 0
  ELSE LET p == preferences[i] IN
       IF p.kind = "meal-under" /\ p.meal = m_type THEN p.minutes
       ELSE IF p.kind = "meal-quick" /\ p.meal = m_type THEN DEFAULT_MEAL_QUICK_MINUTES
       ELSE MealTimeLimitFrom(preferences, m_type, i + 1)

_extract_meal_time_limit(preferences, m_type) ==
  MealTimeLimitFrom(preferences, m_type, 1)

\* ------------------------------------------------------------------ scoring
\* score_recipe, times 60 (every term of the score is a multiple of 1/60 for
\* the recipes of the catalogue).
Score60(r, preferences, context) ==
  LET names == {preferences[i].name : i \in 1..Len(preferences)}
      hits == Cardinality({i \in 1..Len(preferences) : preferences[i].name \in r.text})
      protein_boost == IF "high-protein" \in names THEN Min(150, 3 * r.protein) ELSE 0
      carb_cut == IF "low-carb" \in names THEN Min(150, 3 * r.carbs) ELSE 0
      slow == IF /\ HasQuickThreshold(preferences)
                 /\ r.ready_in_minutes # 0
                 /\ r.ready_in_minutes > QuickThreshold(preferences)
                THEN (r.ready_in_minutes - QuickThreshold(preferences)) * 6 ELSE 0
      budget == IF "budget-friendly" \in names THEN Max(0, 6 - r.n_ingredients) * 12 ELSE 0
      overlap == IF context.recent_ingredient_tokens # {} /\ r.tokens # {}
                   THEN (120 * Cardinality(r.tokens \cap context.recent_ingredient_tokens))
                          \div Max(1, Cardinality(r.tokens))
                   ELSE 0
      dish == IF context.recent_dish_types # {} /\ r.dish_types # {}
                THEN 30 * Cardinality(r.dish_types \cap context.recent_dish_types) ELSE 0
  IN 60 * hits + protein_boost - carb_cut - slow + budget - overlap - dish

\* A penalty that looks at the lower bounds of the shares only.
LowerBoundsPenalty(day_macros, r) ==
  LET protein == day_macros.protein + r.protein
      carbs == day_macros.carbs + r.carbs
      fat == day_macros.fat + r.fat
      total == protein + carbs + fat
  IN IF total <= 0 THEN <<0, 20>>
     ELSE << (IF 5 * protein < total THEN 20 * (total - 5 * protein) ELSE 0)
           + (IF 4 * carbs < total THEN 20 * (total - 4 * carbs) ELSE 0)
           + (IF 20 * fat < 3 * total THEN 4 * (3 * total - 20 * fat) ELSE 0),
           20 * total >>

\* MealPlanner._macro_balance_penalty as the fraction <<num, den>>, den = 20 * total.
_macro_balance_penalty(day_macros, r) ==
  LET protein == day_macros.protein + r.protein
      carbs == day_macros.carbs + r.carbs
      fat == day_macros.fat + r.fat
      total == protein + carbs + fat
  IN IF total <= 0 THEN <<0, 20>>
     ELSE << (IF 5 * protein < total THEN 20 * (total - 5 * protein) ELSE 0)
           + (IF 20 * protein > 9 * total THEN 5 * (20 * protein - 9 * total) ELSE 0)
           + (IF 4 * carbs < total THEN 20 * (total - 4 * carbs) ELSE 0)
           + (IF 5 * carbs > 3 * total THEN 16 * (5 * carbs - 3 * total) ELSE 0)
           + (IF 20 * fat < 3 * total THEN 4 * (3 * total - 20 * fat) ELSE 0)
           + (IF 5 * fat > 2 * total THEN 16 * (5 * fat - 2 * total) ELSE 0),
           20 * total >>

\* base_score - balance_penalty of one candidate, as a fraction.
RankValue(id, preferences, context, day_macros) ==
  LET r == Recipe(id)
      p == _macro_balance_penalty(day_macros, r)
  IN << Score60(r, preferences, context) * (p[2] \div 20) - 3 * p[1], 3 * p[2] >>

FracLess(a, b) == a[1] * b[2] < b[1] * a[2]
FracEq(a, b) == a[1] * b[2] = b[1] * a[2]

\* The sort key without the id: -score alone.
ScoreBefore(x, y) == FracLess(y.score, x.score)

\* The sort key (-score, id) of scored.sort: x goes strictly before y.
KeyBefore(x, y) ==
  \/ FracLess(y.score, x.score)
  \/ FracEq(x.score, y.score) /\ IdOrd(x.id) < IdOrd(y.id)

\* list.sort is stable: an item is inserted after every item that does not
\* sort strictly after it.
RECURSIVE InsertSorted(_, _)
InsertSorted(sorted, x) ==
  IF sorted = <<>> THEN <<x>>
  ELSE IF KeyBefore(x, Head(sorted)) THEN <<x>> \o sorted
  ELSE <<Head(sorted)>> \o InsertSorted(Tail(sorted), x)

RECURSIVE SortScored(_, _)
SortScored(scored, acc) ==
  IF scored = <<>> THEN acc
  ELSE SortScored(Tail(scored), InsertSorted(acc, Head(scored)))

\* The scored candidates left in the order the source listed them.
Unsorted(candidates, preferences, context, day_macros) ==
  [i \in 1..Len(candidates) |->
     [score |-> RankValue(candidates[i], preferences, context, day_macros),
      id |-> candidates[i]]]

\* MealPlanner._rank_candidates: [score, id] records, best first.
_rank_candidates(candidates, preferences, context, day_macros) ==
  IF candidates = <<>> THEN <<>>
  ELSE SortScored([i \in 1..Len(candidates) |->
                     [score |-> RankValue(candidates[i], preferences, context, day_macros),
                      id |-> candidates[i]]], <<>>)

Ids(ranked) == [i \in 1..Len(ranked) |-> ranked[i].id]

\* ------------------------------------------------- the remote backend's answers
\* An id of a response: a recipe id, an id no recipe has ("Z"), None (missing or
\* null), or a JSON array or object, which Python cannot hash.
Unhashable == "[list]"

\* The reasons of a response: missing, a list of items, or another JSON type.
\* An item is a string ("" and "  " are blank) or a non-string ("<7>").
\* _extract_reasons returns a non-empty list or None; <<>> stands for None.
NoReasons == <<>>
Reasons(kind, items) == [kind |-> kind, items |-> items]
ReasonChoices ==
  { Reasons("missing", <<>>), Reasons("other", <<>>),
    Reasons("list", <<"quick", "", "<7>", "lean", "cheap", "fresh", "light">>) }

\* What json.loads(content) gave, or that the call raised:
\*   "raised"  _call_llm caught an exception and returned None
\*   "empty"   a falsy value: {}, [], 0, "", null
\*   "array"   a truthy value that is no object: an array, a number, a string
\*   "object"  a non-empty object with these selected_id, backup_id, reasons
\*   "absent"  no value (a cache miss)
Resp(shape, selected_id, backup_id, reasons) ==
  [shape |-> shape, selected_id |-> selected_id, backup_id |-> backup_id, reasons |-> reasons]
Raised == Resp("raised", None, None, Reasons("missing", <<>>))
Empty == Resp("empty", None, None, Reasons("missing", <<>>))
Array == Resp("array", None, None, Reasons("missing", <<>>))
Absent == Resp("absent", None, None, Reasons("missing", <<>>))
Object(selected_id, backup_id, reasons) == Resp("object", selected_id, backup_id, reasons)

Truthy(result) == result.shape \in {"array", "object"}

\* The objects the backend may answer with for a slot offering `offered`: a
\* selected id that is offered, unknown, a recipe not offered, missing or
\* unhashable, with a backup id that is read only when the selected id is
\* not offered.
ObjectChoices(offered) ==
  {Object(s, None, r) : s \in offered, r \in ReasonChoices}
    \cup {Object(s, None, Reasons("list", <<"best fit">>)) : s \in (RecipeIds \ offered) \cup {"Z", None, Unhashable}}
    \cup {Object("Z", b, Reasons("list", <<"best fit">>)) : b \in offered \cup {Unhashable}}

ResponseChoices(offered) == {Raised, Empty, Array} \cup ObjectChoices(offered)

\* ------------------------------------------------------------ RerankerService
\* RerankerService._choose_valid_id.  `x in candidate_ids` raises TypeError
\* when x is unhashable.
_choose_valid_id(result, candidate_ids) ==
  IF result.shape # "object" THEN [raised |-> FALSE, id |-> None]
  ELSE IF result.selected_id = Unhashable THEN [raised |-> TRUE, id |-> None]
  ELSE IF result.selected_id \in candidate_ids THEN [raised |-> FALSE, id |-> result.selected_id]
  ELSE IF result.backup_id = Unhashable THEN [raised |-> TRUE, id |-> None]
  ELSE IF result.backup_id \in candidate_ids THEN [raised |-> FALSE, id |-> result.backup_id]
  ELSE [raised |-> FALSE, id |-> None]

IsStr(item) == item # "<7>"
Blank(item) == item \in {"", "  "}

\* RerankerService._extract_reasons (and the same lines of _finalize_batch_day).
_extract_reasons(result) ==
  IF result.reasons.kind # "list" THEN NoReasons
  ELSE SelectSeq(result.reasons.items, LAMBDA item : IsStr(item) /\ ~Blank(item))

\* RerankerService._cache_key: the hash of (query, meal_slot, sorted candidate
\* ids, constraints, history), as the tuple it hashes.
_cache_key(query, meal_slot, candidate_ids, constraints, history) ==
  [query |-> query, meal_slot |-> meal_slot, candidate_ids |-> SeqToSet(candidate_ids),
   constraints |-> constraints, history |-> history]

\* self.cache: a set of entries [key, value, expires_at], one per key.
CacheKeys(c) == {e.key : e \in c}
CacheItem(c, key) == CHOOSE e \in c : e.key = key

\* A lookup that takes an entry for expired at its expiry time already, and
\* leaves it in the cache.
EagerExpiry(c, key, time) ==
  IF key \notin CacheKeys(c) THEN [value |-> Absent, cache |-> c]
  ELSE IF CacheItem(c, key).expires_at <= time THEN [value |-> Absent, cache |-> c]
  ELSE [value |-> CacheItem(c, key).value, cache |-> c]

\* RerankerService._cache_get: the value and the cache afterwards.
_cache_get(c, key, time) ==
  IF key \notin CacheKeys(c) THEN [value |-> Absent, cache |-> c]
  ELSE IF CacheItem(c, key).expires_at < time
         THEN [value |-> Absent, cache |-> {e \in c : e.key # key}]
  ELSE [value |-> CacheItem(c, key).value, cache |-> c]

\* RerankerService._cache_set.
_cache_set(c, key, value, time, ttl) ==
  {e \in c : e.key # key} \cup {[key |-> key, value |-> value, expires_at |-> time + ttl]}

\* What rerank gives back: outcome "returned" with (id, reasons), or "raised";
\* the cache afterwards; whether the backend was called.
RerankOut(outcome, id, reasons, c, called) ==
  [outcome |-> outcome, id |-> id, reasons |-> reasons, cache |-> c, called |-> called]

\* Lines 60-62 and 72-74: what rerank returns for what _choose_valid_id gave.
Checked(chosen, result, fallback_id, c, called) ==
  IF chosen.raised THEN RerankOut("raised", None, NoReasons, c, called)
  ELSE IF chosen.id # None THEN RerankOut("returned", chosen.id, _extract_reasons(result), c, called)
  ELSE RerankOut("returned", fallback_id, NoReasons, c, called)

\* rerank from the validation of a result on (lines 59-62 and 71-74).
Validated(result, candidate_ids, fallback_id, c, called) ==
  Checked(_choose_valid_id(result, SeqToSet(candidate_ids)), result, fallback_id, c, called)

\* Lines 55-74: rerank once _cache_get has answered.
Looked(cached, key, candidates, fallback_id, response, time, ttl) ==
  IF Truthy(cached.value)
    THEN Validated(cached.value, candidates, fallback_id, cached.cache, FALSE)
  ELSE IF ~Truthy(response)
    THEN RerankOut("returned", fallback_id, NoReasons, cached.cache, TRUE)
  ELSE Validated(response, candidates, fallback_id,
                 _cache_set(cached.cache, key, response, time, ttl), TRUE)

\* RerankerService.rerank.  `response` is what _call_llm returns if it is called.
rerank(key, candidates, fallback_id, has_client, response, c, time, ttl) ==
  IF Len(candidates) < 2 THEN RerankOut("returned", fallback_id, NoReasons, c, FALSE)
  ELSE IF ~has_client THEN RerankOut("returned", fallback_id, NoReasons, c, FALSE)
  ELSE Looked(_cache_get(c, key, time), key, candidates, fallback_id, response, time, ttl)

\* What the batched call gave, before its items are read:
\*   "raised", "empty", "array" as above; "nolist": an object whose
\*   "selections" is missing or no list; "selections": an object with a list.
BatchShapes == {"raised", "empty", "array", "nolist", "selections"}

\* RerankerService.rerank_batch, up to the reading of the items: the entries it
\* sends (those with candidates), and what comes of the call.
\*   "none"      no call is made and {} is returned
\*   "empty"     the call is made and {} is returned
\*   "raised"    result.get raises AttributeError (the result is no object)
\*   "selections" the items of the list are read
BatchPayload(entries) == SelectSeq(entries, LAMBDA entry : entry.candidates # <<>>)

rerank_batch(entries, has_client, shape) ==
  IF entries = <<>> \/ ~has_client THEN "none"
  ELSE IF BatchPayload(entries) = <<>> THEN "none"
  ELSE IF shape \in {"raised", "empty"} THEN "empty"
  ELSE IF shape = "array" THEN "raised"
  ELSE IF shape = "nolist" THEN "empty"
  ELSE "selections"

\* ------------------------------------------------------------------- state
VARIABLES
  \* the configuration and the request (fixed during a run)
  rerank_mode,          \* MealPlanner.rerank_mode
  rerank_enabled,       \* the local rerank_enabled of generate_meal_plan
  rerank_top_k,         \* MealPlanner.rerank_top_k
  client,               \* ai_service.client is set
  parsed,               \* the ParsedQuery: days, meals_per_day, preferences, exclude
  query,                \* request.query, as far as parse reads it
  environ,              \* os.environ and config/llm_config.json, as read at import
  applied,              \* the last call of _macro_balance_penalty made on its own
  cache_ttl_seconds,    \* RerankerService.cache_ttl_seconds
  \* generate_meal_plan
  pc,                   \* where the run stands
  error,                \* the exception that left generate_meal_plan, or None
  day_offset, m_idx,    \* the day and the index of the slot in meal_types
  meal_plan, daily_meals, warnings, defaults_applied,
  used_recipes, used_today,
  prev_day_ingredient_tokens, prev_day_dish_types,
  day_ingredient_tokens, day_dish_types, day_macros,
  recent_recipe_history, selected_titles,
  day_entries, plan_batch_days, snapshot,
  fin,                  \* the locals of _finalize_batch_day and its caller's loop
  summary,
  \* RerankerService
  cache, now,
  \* what the last step did (read by the properties only)
  last,
  \* the calls made to the service so far (read by the properties only)
  svc,
  \* RecipeService: its cache, and what its last call did (the latter read by
  \* the properties only)
  recipe_service,
  \* the remote rerank calls made so far in this run (read by the properties only)
  remote_calls,
  \* the previous-day context and the recent ids (line 82) each day of this run
  \* started with, in the order of the days (read by the properties only)
  scored_with,
  \* the processes that serve requests
  threads,              \* per thread, where it stands in _cache_get or _cache_set
  rate_limit_state,     \* main.rate_limit_state: per client address, the window
  http                  \* the last request rate_limit_requests answered

vars == <<rerank_mode, rerank_enabled, rerank_top_k, client, parsed, query, environ,
          applied, cache_ttl_seconds,
          pc, error, day_offset, m_idx, meal_plan, daily_meals, warnings, defaults_applied,
          used_recipes, used_today, prev_day_ingredient_tokens, prev_day_dish_types,
          day_ingredient_tokens, day_dish_types, day_macros, recent_recipe_history,
          selected_titles, day_entries, plan_batch_days, snapshot, fin, summary,
          cache, now, last, svc, recipe_service, remote_calls, scored_with,
          threads, rate_limit_state, http>>

serving_vars == <<threads, rate_limit_state, http>>
request_vars == <<rerank_mode, rerank_enabled, rerank_top_k, client, parsed, query, environ,
                  applied, cache_ttl_seconds, serving_vars>>
config_vars == <<request_vars, scored_with>>

\* recipe_service.get_recipes(diets, exclude, meal_type, sources): the recipes
\* of the source that pass the exclusions and match the meal type, in the
\* source's order.
get_recipes(m_type) ==
  SelectSeq(SourceOrder, LAMBDA id : /\ ~_contains_excluded(id, parsed.exclude)
                                     /\ m_type \in Recipe(id).dish_types)

\* ----------------------------------------------------- generate_meal_plan
meal_types ==
  IF parsed.meals_per_day > 3 THEN <<"breakfast", "lunch", "dinner", "snack">>
  ELSE <<"breakfast", "lunch", "dinner">>

batch_mode == rerank_enabled /\ rerank_mode \in {"per_day", "per_plan"}
per_plan_batch == batch_mode /\ rerank_mode = "per_plan"

\* A filter that keeps every candidate.
Unlimited(candidates, time_limit) == candidates

\* Lines 101-114: the candidates of a meal type after the time-limit filter.
Limited(candidates, time_limit) ==
  SelectSeq(candidates, LAMBDA id : /\ Recipe(id).ready_in_minutes # 0
                                    /\ Recipe(id).ready_in_minutes <= time_limit)

TimeFilter(m_type) ==
  LET fetched == get_recipes(m_type)
      time_limit == _extract_meal_time_limit(parsed.preferences, m_type)
      limited == Limited(fetched, time_limit)
  IN IF time_limit # 0 /\ limited # <<>>
       THEN [candidates |-> limited, time_limit |-> time_limit, applied |-> TRUE, relaxed |-> FALSE]
     ELSE [candidates |-> fetched, time_limit |-> time_limit, applied |-> FALSE,
           relaxed |-> time_limit # 0]

\* Line 82.
recent_ids == UNION SeqToSet(recent_recipe_history)

\* No looser pool at all.
NoLooserPool(candidates) == [pool |-> <<>>, tier |-> 3]

\* Lines 149-156 and 204-211: the pool ranked when the primary pool is empty,
\* with the tier that supplied it.
FallbackPool(candidates) ==
  LET tier1 == SelectSeq(candidates, LAMBDA id : id \notin used_today /\ id \notin recent_ids)
      tier2 == SelectSeq(candidates, LAMBDA id : id \notin used_today)
  IN IF tier1 # <<>> THEN [pool |-> tier1, tier |-> 1]
     ELSE IF tier2 # <<>> THEN [pool |-> tier2, tier |-> 2]
     ELSE [pool |-> candidates, tier |-> 3]

\* Lines 122-126: the titles stand for the whole history, since the main
\* ingredients and cuisines it lists are those of the recipes so titled.
History(titles) == SubSeq(titles, Max(1, Len(titles) - 11), Len(titles))

\* A test that asks for the reranker whatever the setting and the mode.
AlwaysRerank(ranked, enabled) == Len(ranked) >= 2

\* MealPlanner._should_rerank.
_should_rerank(ranked, enabled) ==
  IF ~enabled THEN FALSE
  ELSE IF rerank_mode # "per_meal" THEN FALSE
  ELSE Len(ranked) >= 2

\* ranked[:top_k] for top_k = min(rerank_top_k, len(ranked)).
TopCandidates(ranked) == SubSeq(Ids(ranked), 1, Min(rerank_top_k, Len(ranked)))

Constraints(m_type, tf) ==
  [meal_type |-> m_type, time_limit_minutes |-> IF tf.applied THEN tf.time_limit ELSE 0]

\* MealPlanner._pick_best_recipe on a pool: the recipe (or None), the reasons,
\* and what the call of rerank did.
PickOut(recipe, reasons, outcome, returned_id, ranked, offered, active, called, c) ==
  [recipe |-> recipe, reasons |-> reasons, outcome |-> outcome, returned_id |-> returned_id,
   ranked |-> ranked, offered |-> offered, active |-> active, called |-> called,
   cache |-> c, tier |-> 0]

\* Lines 411-412: the candidate carrying the chosen id, or top_recipe.
Selected(out, ranked, top_candidates) ==
  IF out.outcome = "raised"
    THEN PickOut(None, NoReasons, "raised", None, ranked, top_candidates, TRUE,
                 out.called, out.cache)
  ELSE PickOut(IF out.id \in SeqToSet(top_candidates) THEN out.id ELSE ranked[1].id,
               out.reasons, "returned", out.id, ranked, top_candidates, TRUE,
               out.called, out.cache)

\* Lines 397-410: the call of rerank on the top-K.
Reranked(ranked, top_candidates, meal_slot, history, constraints, response) ==
  Selected(rerank(_cache_key("query", meal_slot, top_candidates, constraints, history),
                  top_candidates, ranked[1].id, client, response, cache, now,
                  cache_ttl_seconds),
           ranked, top_candidates)

\* Lines 391-412: _pick_best_recipe once the candidates are ranked.
Picked(ranked, meal_slot, history, constraints, enabled, response) ==
  IF ranked = <<>>
    THEN PickOut(None, NoReasons, "returned", None, ranked, <<>>, FALSE, FALSE, cache)
  ELSE IF ~_should_rerank(ranked, enabled)
    THEN PickOut(ranked[1].id, NoReasons, "returned", None, ranked, <<>>, FALSE, FALSE, cache)
  ELSE Reranked(ranked, TopCandidates(ranked), meal_slot, history, constraints, response)

\* MealPlanner._pick_best_recipe: the recipe and the reasons it returns, or
\* that the call of rerank raised.
_pick_best_recipe(pool, context, meal_slot, history, constraints, enabled, response) ==
  Picked(_rank_candidates(pool, parsed.preferences, context, day_macros),
         meal_slot, history, constraints, enabled, response)

\* ---- the slot being processed (pc = "slot")
m_type == meal_types[m_idx]
slot_filter == TimeFilter(m_type)
candidates == slot_filter.candidates
available_candidates == SelectSeq(candidates, LAMBDA id : id \notin used_recipes)
context == [recent_ingredient_tokens |-> prev_day_ingredient_tokens,
            recent_dish_types |-> prev_day_dish_types]
history == History(selected_titles)
meal_slot == <<day_offset + 1, m_type>>
constraints == Constraints(m_type, slot_filter)

Warning(kind, meal, day) == [kind |-> kind, meal_type |-> meal, day |-> day]
relax_warning ==
  IF slot_filter.relaxed THEN <<Warning("relaxing time constraint", m_type, day_offset + 1)>>
  ELSE <<>>
no_candidates_warning == <<Warning("No candidates found", m_type, day_offset + 1)>>
reused_pool == <<Warning("Reused recipe pool", m_type, day_offset + 1)>>

Meal(meal, recipe, reasons) ==
  [meal_type |-> meal, recipe |-> recipe, selection_reasons |-> reasons]
\* A daily plan that is always numbered 1.
DayOnePlan(day, meals) == [day |-> 1, meals |-> meals]
DailyPlan(day, meals) == [day |-> day, meals |-> meals]

\* MealPlanner._update_macros.
_update_macros(macros, r) ==
  [protein |-> macros.protein + r.protein, carbs |-> macros.carbs + r.carbs,
   fat |-> macros.fat + r.fat]

\* Lines 192-193 and 241-242.
AppendTitle(titles, title) ==
  IF title \in SeqToSet(titles) THEN titles ELSE Append(titles, title)

\* What the last step did.
Last(kind, slot, cands, primary, tier, ranked, offered, response, outcome, returned_id, committed, reasons, called, active, used, payload) ==
  [kind |-> kind, slot |-> slot, candidates |-> cands, primary |-> primary, tier |-> tier,
   ranked |-> ranked, offered |-> offered, response |-> response, outcome |-> outcome,
   returned_id |-> returned_id, committed |-> committed, reasons |-> reasons,
   called |-> called, active |-> active, used |-> used, payload |-> payload]
NoLast ==
  Last("none", <<0, None>>, <<>>, <<>>, 0, <<>>, <<>>, Absent, "returned", None, None,
       NoReasons, FALSE, FALSE, {}, <<>>)

\* The end of an iteration of `for m_type in meal_types`.
NextSlot ==
  IF m_idx < Len(meal_types) THEN m_idx' = m_idx + 1 /\ pc' = "slot"
  ELSE m_idx' = m_idx /\ pc' = "endday"

\* The pool _pick_best_recipe ranks for the slot, and the ids it would offer.
SlotPool == IF available_candidates # <<>> THEN available_candidates
            ELSE FallbackPool(candidates).pool
SlotOffered ==
  SeqToSet(TopCandidates(_rank_candidates(SlotPool, parsed.preferences, context, day_macros)))

\* Lines 148-167: the second call of _pick_best_recipe, on the fallback pool,
\* when the first one gave no recipe.
Retried(first, fallback, response) ==
  IF first.recipe = None /\ first.outcome = "returned"
    THEN [_pick_best_recipe(fallback.pool, context, meal_slot, history, constraints,
                            rerank_enabled, response) EXCEPT !.tier = fallback.tier]
  ELSE first

\* Lines 168-198: what the slot does with the recipe picked.
Commit(pick, r, seen) ==
  /\ cache' = pick.cache
  /\ last' = seen
  /\ remote_calls' = remote_calls + (IF pick.called THEN 1 ELSE 0)
  /\ IF pick.outcome = "raised"
       THEN /\ pc' = "error"
            /\ error' = "TypeError"
            /\ warnings' = warnings \o relax_warning
            /\ UNCHANGED <<m_idx, daily_meals, defaults_applied, used_recipes,
                           used_today, day_ingredient_tokens, day_dish_types, day_macros,
                           selected_titles>>
     ELSE IF pick.recipe # None
       THEN /\ NextSlot
            /\ error' = error
            /\ warnings' = warnings \o relax_warning
            /\ defaults_applied' = IF pick.tier > 0 THEN defaults_applied \o reused_pool
                                   ELSE defaults_applied
            /\ used_recipes' = used_recipes \cup {pick.recipe}
            /\ used_today' = used_today \cup {pick.recipe}
            /\ daily_meals' = Append(daily_meals, Meal(m_type, pick.recipe, seen.reasons))
            /\ day_ingredient_tokens' = day_ingredient_tokens \cup r.ptokens
            /\ day_dish_types' = day_dish_types \cup r.dish_types
            /\ day_macros' = _update_macros(day_macros, r)
            /\ selected_titles' = AppendTitle(selected_titles, pick.recipe)
     ELSE /\ NextSlot
          /\ error' = error
          /\ warnings' = (warnings \o relax_warning) \o no_candidates_warning
          /\ UNCHANGED <<daily_meals, defaults_applied, used_recipes,
                         used_today, day_ingredient_tokens, day_dish_types, day_macros,
                         selected_titles>>

Seen(pick, response) ==
  Last("slot", meal_slot, candidates, available_candidates, pick.tier, pick.ranked,
       pick.offered, IF pick.called THEN response ELSE Absent, pick.outcome,
       pick.returned_id, pick.recipe,
       IF rerank_enabled THEN pick.reasons ELSE NoReasons,
       pick.called, pick.active, used_recipes, <<>>)

Committed(pick, response) == Commit(pick, Recipe(pick.recipe), Seen(pick, response))

\* Lines 134-199: a slot in per-meal mode (and with reranking disabled).
PerMealSlot ==
  /\ pc = "slot"
  /\ ~batch_mode
  /\ \E response \in (IF rerank_enabled /\ client /\ rerank_mode = "per_meal"
                        THEN ResponseChoices(SlotOffered) ELSE {Absent}) :
       Committed(Retried(_pick_best_recipe(available_candidates, context, meal_slot, history,
                                           constraints, rerank_enabled, response),
                         FallbackPool(candidates), response),
                 response)
  /\ UNCHANGED <<config_vars, recipe_service>>
  /\ UNCHANGED <<day_offset, meal_plan, prev_day_ingredient_tokens, prev_day_dish_types,
                 recent_recipe_history, day_entries, plan_batch_days, snapshot, fin,
                 summary, now, svc>>

\* An entry of day_entries (lines 225-234); scores_by_id is read off ranked.
Entry(slot, meal, top, cons, hist, ranked) ==
  [meal_slot |-> slot, meal_type |-> meal, candidates |-> top, constraints |-> cons,
   history |-> hist, fallback_id |-> ranked[1].id, ranked |-> ranked]

\* Lines 201-213: the ranked list of the slot, with the tier that supplied it
\* (0: the primary pool).
Fallen(first, fallback) ==
  IF first # <<>> THEN [ranked |-> first, tier |-> 0]
  ELSE [ranked |-> _rank_candidates(fallback.pool, parsed.preferences, context, day_macros),
        tier |-> fallback.tier]

\* Lines 214-244.
Provisional(ranked, tier, top_recipe) ==
  /\ last' = Last("provisional", meal_slot, candidates, available_candidates,
                  IF ranked = <<>> THEN 0 ELSE tier, ranked,
                  IF ranked = <<>> THEN <<>> ELSE TopCandidates(ranked), Absent, "returned",
                  None, top_recipe.id, NoReasons, FALSE, FALSE, used_recipes, <<>>)
  /\ IF ranked = <<>>
       THEN /\ warnings' = (warnings \o relax_warning) \o no_candidates_warning
            /\ UNCHANGED <<defaults_applied, day_entries, used_recipes, used_today,
                           day_ingredient_tokens, day_dish_types, day_macros,
                           selected_titles>>
     ELSE /\ warnings' = warnings \o relax_warning
          /\ defaults_applied' = IF tier > 0 THEN defaults_applied \o reused_pool
                                 ELSE defaults_applied
          /\ day_entries' = Append(day_entries,
                 Entry(meal_slot, m_type, TopCandidates(ranked), constraints, history, ranked))
          /\ used_recipes' = used_recipes \cup {top_recipe.id}
          /\ used_today' = used_today \cup {top_recipe.id}
          /\ day_ingredient_tokens' = day_ingredient_tokens \cup top_recipe.ptokens
          /\ day_dish_types' = day_dish_types \cup top_recipe.dish_types
          /\ day_macros' = _update_macros(day_macros, top_recipe)
          /\ selected_titles' = AppendTitle(selected_titles, top_recipe.id)

Ranked(slot) ==
  Provisional(slot.ranked, slot.tier,
              IF slot.ranked = <<>> THEN [id |-> None] ELSE Recipe(slot.ranked[1].id))

\* Lines 201-244: a slot in per-day and per-plan mode, committed provisionally.
BatchSlot ==
  /\ pc = "slot"
  /\ batch_mode
  /\ Ranked(Fallen(_rank_candidates(available_candidates, parsed.preferences, context,
                                    day_macros),
                   FallbackPool(candidates)))
  /\ NextSlot
  /\ UNCHANGED <<config_vars, recipe_service, remote_calls>>
  /\ UNCHANGED <<error, day_offset, meal_plan, daily_meals, prev_day_ingredient_tokens,
                 prev_day_dish_types, recent_recipe_history, plan_batch_days, snapshot, fin,
                 summary, cache, now, svc>>

\* ---- the end of a day
NoMacros == [protein |-> 0, carbs |-> 0, fat |-> 0]
last_day == day_offset + 1 >= parsed.days

\* Lines 73-87 of the next iteration of `for day_offset`, or the end of the loop.
NextDay(titles, used) ==
  IF ~last_day
    THEN /\ day_offset' = day_offset + 1
         /\ m_idx' = 1
         /\ daily_meals' = <<>>
         /\ used_today' = {}
         /\ day_ingredient_tokens' = {}
         /\ day_dish_types' = {}
         /\ day_macros' = NoMacros
         /\ day_entries' = <<>>
         /\ snapshot' = [selected_titles |-> titles, used_recipes |-> used]
         /\ scored_with' = Append(scored_with,
                                  [recent_ingredient_tokens |-> prev_day_ingredient_tokens',
                                   recent_dish_types |-> prev_day_dish_types',
                                   recent_ids |-> UNION SeqToSet(recent_recipe_history')])
         /\ pc' = "slot"
  ELSE /\ UNCHANGED <<day_offset, m_idx, daily_meals, used_today, day_ingredient_tokens,
                      day_dish_types, day_macros, day_entries, snapshot, scored_with>>
       /\ pc' = IF per_plan_batch THEN "plan_batch" ELSE "summary"

\* Lines 259-261, 293-295, 305-307.
Remember(recent, used) ==
  IF used = {} THEN recent
  ELSE LET longer == Append(recent, used)
       IN SubSeq(longer, Max(1, Len(longer) - 1), Len(longer))

\* Lines 298-307: the end of a day without batching.
EndDay ==
  /\ pc = "endday"
  /\ ~batch_mode
  /\ meal_plan' = Append(meal_plan, DailyPlan(day_offset + 1, daily_meals))
  /\ prev_day_ingredient_tokens' = day_ingredient_tokens
  /\ prev_day_dish_types' = day_dish_types
  /\ recent_recipe_history' = Remember(recent_recipe_history, used_today)
  /\ NextDay(selected_titles, used_recipes)
  /\ last' = NoLast
  /\ UNCHANGED <<request_vars, recipe_service, remote_calls>>
  /\ UNCHANGED <<error, warnings, defaults_applied, used_recipes, selected_titles,
                 plan_batch_days, fin, summary, cache, now, svc>>

\* Lines 247-261: the end of a day in per-plan mode.
EndDayPerPlan ==
  /\ pc = "endday"
  /\ per_plan_batch
  /\ plan_batch_days' = Append(plan_batch_days,
                               [day |-> day_offset + 1, entries |-> day_entries])
  /\ prev_day_ingredient_tokens' = day_ingredient_tokens
  /\ prev_day_dish_types' = day_dish_types
  /\ recent_recipe_history' = Remember(recent_recipe_history, used_today)
  /\ NextDay(selected_titles, used_recipes)
  /\ last' = NoLast
  /\ UNCHANGED <<request_vars, recipe_service, remote_calls>>
  /\ UNCHANGED <<error, meal_plan, warnings, defaults_applied, used_recipes, selected_titles,
                 fin, summary, cache, now, svc>>

\* The locals of _finalize_batch_day (lines 416-423) for the entries of a day,
\* with what rerank_batch gave (status) and the caller's position (day_idx).
Fin(status, entries, used, day, day_idx) ==
  [status |-> status, entries |-> entries, idx |-> 1, used |-> used, used_today |-> {},
   daily_meals |-> <<>>, day_ingredient_tokens |-> {}, day_dish_types |-> {},
   selected_titles |-> <<>>, day |-> day, day_idx |-> day_idx]
NoFin == Fin("none", <<>>, {}, 0, 0)

Submitted(entries) ==
  [i \in 1..Len(BatchPayload(entries)) |->
     [meal_slot |-> BatchPayload(entries)[i].meal_slot,
      candidates |-> BatchPayload(entries)[i].candidates]]

BatchLast(entries, shape, status) ==
  Last("batch_call", <<0, None>>, <<>>, <<>>, 0, <<>>, <<>>,
       IF status = "none" THEN Absent ELSE Resp(shape, None, None, Reasons("missing", <<>>)),
       IF status = "raised" THEN "raised" ELSE "returned", None, None, NoReasons,
       status # "none", FALSE, {},
       IF status = "none" THEN <<>> ELSE Submitted(entries))

\* The answers the batched call may get: none when no call is made.
ShapesFor(entries) ==
  IF rerank_batch(entries, client, "selections") = "none" THEN {"raised"} ELSE BatchShapes

\* Lines 263-276: the end of a day in per-day mode, up to the first entry of
\* _finalize_batch_day.
EndDayPerDay ==
  /\ pc = "endday"
  /\ batch_mode /\ ~per_plan_batch
  /\ \E shape \in ShapesFor(day_entries) :
       LET status == rerank_batch(day_entries, client, shape) IN
       /\ remote_calls' = remote_calls + (IF status = "none" THEN 0 ELSE 1)
       /\ last' = BatchLast(day_entries, shape, status)
       /\ IF status = "raised"
            THEN pc' = "error" /\ error' = "AttributeError" /\ fin' = fin
          ELSE /\ pc' = "finalize"
               /\ error' = error
               /\ fin' = Fin(status, day_entries, snapshot.used_recipes, day_offset + 1, 0)
  /\ UNCHANGED <<config_vars, recipe_service>>
  /\ UNCHANGED <<day_offset, m_idx, meal_plan, daily_meals, warnings, defaults_applied,
                 used_recipes, used_today, prev_day_ingredient_tokens, prev_day_dish_types,
                 day_ingredient_tokens, day_dish_types, day_macros, recent_recipe_history,
                 selected_titles, day_entries, plan_batch_days, snapshot, summary, cache,
                 now, svc>>

RECURSIVE Flatten(_)
Flatten(days) ==
  IF days = <<>> THEN <<>> ELSE Head(days).entries \o Flatten(Tail(days))
plan_batch_entries == Flatten(plan_batch_days)

\* Lines 309-313: the batched call of per-plan mode, up to the first entry of
\* the first day.
PlanBatch ==
  /\ pc = "plan_batch"
  /\ \E shape \in ShapesFor(plan_batch_entries) :
       LET status == rerank_batch(plan_batch_entries, client, shape) IN
       /\ remote_calls' = remote_calls + (IF status = "none" THEN 0 ELSE 1)
       /\ last' = BatchLast(plan_batch_entries, shape, status)
       /\ IF status = "raised"
            THEN /\ pc' = "error" /\ error' = "AttributeError"
                 /\ UNCHANGED <<fin, meal_plan, used_recipes>>
          ELSE /\ pc' = "finalize"
               /\ error' = error
               /\ meal_plan' = <<>>
               /\ used_recipes' = {}
               /\ fin' = Fin(status, plan_batch_days[1].entries, {}, plan_batch_days[1].day, 1)
  /\ UNCHANGED <<config_vars, recipe_service>>
  /\ UNCHANGED <<day_offset, m_idx, daily_meals, warnings, defaults_applied,
                 used_today, prev_day_ingredient_tokens, prev_day_dish_types,
                 day_ingredient_tokens, day_dish_types, day_macros, recent_recipe_history,
                 selected_titles, day_entries, plan_batch_days, snapshot, summary, cache,
                 now, svc>>

\* A finalization that takes the selected id of the item as it comes.
UnvalidatedChoice(entry, result, used) ==
  [raised |-> FALSE,
   recipe |-> IF result.shape = "object" /\ result.selected_id \in RecipeIds
                THEN result.selected_id ELSE entry.ranked[1].id,
   reasons |-> NoReasons]

\* ---- _finalize_batch_day
\* Lines 426-460 for one entry: the recipe it settles on and its reasons, or
\* that `in candidate_ids` raised TypeError.
FinalChoice(entry, result, used) ==
  LET candidate_ids == SeqToSet(entry.candidates)
      is_dict == result.shape = "object"
      raised == /\ is_dict
                /\ \/ result.selected_id = Unhashable
                   \/ result.selected_id \notin candidate_ids /\ result.backup_id = Unhashable
      chosen_id == IF ~is_dict THEN None
                   ELSE IF result.selected_id \in candidate_ids THEN result.selected_id
                   ELSE IF result.backup_id \in candidate_ids THEN result.backup_id
                   ELSE None
      reasons == IF is_dict THEN _extract_reasons(result) ELSE NoReasons
      ranked_ids == Ids(entry.ranked)
      recipe == IF chosen_id # None /\ chosen_id \in SeqToSet(ranked_ids) THEN chosen_id
                ELSE None
      unused == SelectSeq(ranked_ids, LAMBDA id : id \notin used)
  IN IF raised THEN [raised |-> TRUE, recipe |-> None, reasons |-> NoReasons]
     ELSE IF recipe # None /\ recipe \notin used
       THEN [raised |-> FALSE, recipe |-> recipe, reasons |-> reasons]
     ELSE IF unused # <<>>
       THEN [raised |-> FALSE, recipe |-> unused[1], reasons |-> NoReasons]
     ELSE [raised |-> FALSE, recipe |-> ranked_ids[1], reasons |-> NoReasons]

\* The item batch_results holds for a slot: none, or one of the objects of
\* the "selections" list.
ItemChoices(status, offered) ==
  IF status = "selections" THEN {Absent} \cup ObjectChoices(offered) ELSE {Absent}

\* Lines 462-487: what the loop does with the recipe settled on.
Settle(entry, result, choice, r) ==
  /\ last' = Last("final", entry.meal_slot, get_recipes(entry.meal_type), <<>>, 0,
                  entry.ranked, entry.candidates, result,
                  IF choice.raised THEN "raised" ELSE "returned", None,
                  choice.recipe, choice.reasons, FALSE, TRUE, fin.used, <<>>)
  /\ IF choice.raised
       THEN pc' = "error" /\ error' = "TypeError" /\ fin' = fin
     ELSE /\ UNCHANGED <<pc, error>>
          /\ fin' = [fin EXCEPT
               !.idx = @ + 1,
               !.used = @ \cup {choice.recipe},
               !.used_today = @ \cup {choice.recipe},
               !.daily_meals = Append(@, Meal(entry.meal_type, choice.recipe,
                                              choice.reasons)),
               !.day_ingredient_tokens = @ \cup r.ptokens,
               !.day_dish_types = @ \cup r.dish_types,
               !.selected_titles = Append(@, choice.recipe)]

Settled(entry, result, choice) == Settle(entry, result, choice, Recipe(choice.recipe))

Entered(entry) ==
  \E result \in ItemChoices(fin.status, SeqToSet(entry.candidates)) :
    Settled(entry, result, FinalChoice(entry, result, fin.used))

\* Lines 425-487: one iteration of `for entry in day_entries`.
FinalizeEntry ==
  /\ pc = "finalize"
  /\ fin.idx <= Len(fin.entries)
  /\ Entered(fin.entries[fin.idx])
  /\ UNCHANGED <<config_vars, recipe_service, remote_calls>>
  /\ UNCHANGED <<day_offset, m_idx, meal_plan, daily_meals, warnings, defaults_applied,
                 used_recipes, used_today, prev_day_ingredient_tokens, prev_day_dish_types,
                 day_ingredient_tokens, day_dish_types, day_macros, recent_recipe_history,
                 selected_titles, day_entries, plan_batch_days, snapshot, summary, cache,
                 now, svc>>

\* Lines 288-290.
RECURSIVE AppendTitles(_, _)
AppendTitles(titles, more) ==
  IF more = <<>> THEN titles
  ELSE AppendTitles(AppendTitle(titles, Head(more)), Tail(more))

\* The return of _finalize_batch_day in per-day mode and lines 277-296.
FinalizeReturnDay ==
  /\ pc = "finalize"
  /\ fin.idx > Len(fin.entries)
  /\ fin.day_idx = 0
  /\ meal_plan' = Append(meal_plan, DailyPlan(day_offset + 1, fin.daily_meals))
  /\ used_recipes' = snapshot.used_recipes \cup fin.used_today
  /\ prev_day_ingredient_tokens' = fin.day_ingredient_tokens
  /\ prev_day_dish_types' = fin.day_dish_types
  /\ selected_titles' = AppendTitles(snapshot.selected_titles, fin.selected_titles)
  /\ recent_recipe_history' = Remember(recent_recipe_history, fin.used_today)
  /\ NextDay(AppendTitles(snapshot.selected_titles, fin.selected_titles),
             snapshot.used_recipes \cup fin.used_today)
  /\ fin' = NoFin
  /\ last' = NoLast
  /\ UNCHANGED <<request_vars, recipe_service, remote_calls>>
  /\ UNCHANGED <<error, warnings, defaults_applied, plan_batch_days, summary, cache, now, svc>>

\* The return of _finalize_batch_day in per-plan mode and lines 327-334.
FinalizeReturnPlan ==
  /\ pc = "finalize"
  /\ fin.idx > Len(fin.entries)
  /\ fin.day_idx > 0
  /\ meal_plan' = Append(meal_plan, DailyPlan(fin.day, fin.daily_meals))
  /\ used_recipes' = used_recipes \cup fin.used_today
  /\ prev_day_ingredient_tokens' = fin.day_ingredient_tokens
  /\ prev_day_dish_types' = fin.day_dish_types
  /\ IF fin.day_idx < Len(plan_batch_days)
       THEN /\ fin' = Fin(fin.status, plan_batch_days[fin.day_idx + 1].entries,
                          used_recipes \cup fin.used_today,
                          plan_batch_days[fin.day_idx + 1].day, fin.day_idx + 1)
            /\ pc' = "finalize"
     ELSE fin' = NoFin /\ pc' = "summary"
  /\ last' = NoLast
  /\ UNCHANGED <<config_vars, recipe_service, remote_calls>>
  /\ UNCHANGED <<error, day_offset, m_idx, daily_meals, warnings, defaults_applied,
                 used_today, day_ingredient_tokens, day_dish_types, day_macros,
                 recent_recipe_history, selected_titles, day_entries, plan_batch_days,
                 snapshot, summary, cache, now, svc>>

\* ---- the summary
RECURSIVE TotalMeals(_)
TotalMeals(plan) ==
  IF plan = <<>> THEN 0 ELSE Len(Head(plan).meals) + TotalMeals(Tail(plan))

\* MealPlanSummary as lines 359-364 build it: warnings and defaults_applied
\* are not passed and take the defaults of the model (empty lists).
MealPlanSummary(total_meals) ==
  [total_meals |-> total_meals, warnings |-> <<>>, defaults_applied |-> <<>>]
NoSummary == MealPlanSummary(-1)

\* Lines 336-375.
Summarize ==
  /\ pc = "summary"
  /\ summary' = MealPlanSummary(TotalMeals(meal_plan))
  /\ pc' = "done"
  /\ last' = NoLast
  /\ UNCHANGED <<config_vars, recipe_service, remote_calls>>
  /\ UNCHANGED <<error, day_offset, m_idx, meal_plan, daily_meals, warnings, defaults_applied,
                 used_recipes, used_today, prev_day_ingredient_tokens, prev_day_dish_types,
                 day_ingredient_tokens, day_dish_types, day_macros, recent_recipe_history,
                 selected_titles, day_entries, plan_batch_days, snapshot, fin, cache, now, svc>>

\* ---- RecipeService
\* RecipeService.__init__: the sources in the order of self.sources, an empty
\* cache and its time to live.
SourceNames == <<"Local", "TheMealDB">>
recipe_cache_ttl_seconds == 300

\* What the last call of RecipeService.get_recipes did: the names it queried,
\* those that answered (from the source or from the cache), those that
\* raised, and its outcome.
Fetched(called, queried, answered, failed, outcome, recipes, meal) ==
  [called |-> called, queried |-> queried, answered |-> answered, failed |-> failed,
   outcome |-> outcome, recipes |-> recipes, meal_type |-> meal]
NoFetched == Fetched(FALSE, {}, {}, {}, "returned", <<>>, None)
\* cache is RecipeService.cache; the rest records the last call: sources is
\* its argument, calls the sources whose get_recipes it invoked.
NoRecipeService == [cache |-> {}, fetched |-> NoFetched, sources |-> {}, calls |-> {}]

\* ---- QueryParser and ConflictResolver
\* The longest duration a query states.
MaxStated == 10

\* The diet keywords of DIET_DEFINITIONS that the queries mention.
DietWords == {"vegan", "vegetarian", "pescatarian", "keto", "gluten-free"}

\* A query text, as far as parse reads it here:
\*   week    the text holds "week" or "next week" (or neither: "")
\*   stated  the number N of the first "N day" of the text, <<N>>, or <<>>
\*           when the text holds none
\*   diets   the diet keywords the text holds
\* The queries name no exclusion, no calories, no meal count, no preference.
Queries == [week : {"", "week", "next week"},
            stated : {<<>>} \cup {<<n>> : n \in 0..MaxStated},
            diets : SUBSET DietWords]
NoQuery == [week |-> "", stated |-> <<>>, diets |-> {}]

_extract_duration(text) ==
  IF text.week # "" THEN 7
  ELSE IF text.stated # <<>> THEN Max(text.stated[1], 1)
  ELSE 3

_extract_diets(text) == text.diets

\* With no exclusion, calories or preference in the text: the first test is
\* on the diets and the default duration, the second on "next week" ("healthy"
\* is not in these texts) without specifics.
_is_ambiguous(text, days, diets) ==
  \/ diets = {} /\ days = 3
  \/ text.week = "next week" /\ diets = {}

\* What ai_service.enhance_query returns: nothing (no client, or the call
\* failed), or the parsed JSON, of which duration_days (0 for null) and diets
\* are read here.
NoEnhanced == [none |-> TRUE, duration_days |-> 0, diets |-> {}]
EnhancedChoices ==
  [none : {FALSE}, duration_days : {0, 2, 9}, diets : {{}, {"paleo"}, {"vegan", "keto"}}]

_try_llm_enhancement(has_client) ==
  IF has_client THEN {NoEnhanced} \cup EnhancedChoices ELSE {NoEnhanced}

\* The ParsedQuery that parse returns, for the rule-based days and diets and
\* for what the enhancement gave.
ParsedQuery(days, diets, enhanced) ==
  [days |-> IF ~enhanced.none /\ enhanced.duration_days # 0 THEN enhanced.duration_days
            ELSE days,
   diets |-> IF ~enhanced.none THEN diets \cup enhanced.diets ELSE diets,
   meals_per_day |-> 3, preferences |-> <<>>, exclude |-> {}]

\* QueryParser.parse: the set of what it may return for a text.
parse(text, has_client) ==
  { ParsedQuery(_extract_duration(text), _extract_diets(text), enhanced) :
      enhanced \in IF _is_ambiguous(text, _extract_duration(text), _extract_diets(text))
                   THEN _try_llm_enhancement(has_client) ELSE {NoEnhanced} }

INCOMPATIBLE_DIETS == <<{"vegan", "pescatarian"}, {"vegan", "keto"}, {"vegetarian", "paleo"}>>

\* A validate that looks at the diets before the duration.
DietsFirst(p) ==
  IF \E i \in 1..Len(INCOMPATIBLE_DIETS) : INCOMPATIBLE_DIETS[i] \subseteq p.diets
    THEN "409 CONFLICTING_DIETS"
  ELSE IF p.days > 7 THEN "400 DURATION_LIMIT_EXCEEDED"
  ELSE None

\* ConflictResolver.validate: the HTTPException it raises, or None.
validate(p) ==
  IF p.days > 7 THEN "400 DURATION_LIMIT_EXCEEDED"
  ELSE IF \E i \in 1..Len(INCOMPATIBLE_DIETS) : INCOMPATIBLE_DIETS[i] \subseteq p.diets
    THEN "409 CONFLICTING_DIETS"
  ELSE None

\* ---- _macro_balance_penalty on its own
\* The grams of a macro that the day so far and a candidate hold.
MacroGrams == {0, 1, 3, 8, 9}
MacroChoices == [protein : MacroGrams, carbs : MacroGrams, fat : MacroGrams]
NoApplied == [done |-> FALSE, nutrition |-> NoMacros, penalty |-> <<0, 20>>]

\* ---- the configuration read at import
\* An environment variable is "unset" or its text. A value of the JSON file
\* is <<"absent">>, <<"null">>, <<"bool", b>>, <<"int", n>>, <<"float">> or
\* <<"str", text>>.
Unset == "unset"

\* str.lower() on the texts used here.
Lower(text) == IF text = "True" THEN "true" ELSE text

\* int(text): the integer a text denotes (whitespace around it allowed), or
\* ValueError.
ValueError == "ValueError"
IntTexts == {"10", "5", " 7 ", "120"}
IntOf(text) ==
  IF text = "10" THEN 10 ELSE IF text = "5" THEN 5 ELSE IF text = " 7 " THEN 7 ELSE 120

\* os.getenv(name, default).
getenv(value, default) == IF value = Unset THEN default ELSE value

_as_bool(value, default) ==
  IF value[1] = "bool" THEN value[2]
  ELSE IF value[1] = "str" THEN Lower(value[2]) \in {"1", "true", "yes", "on"}
  ELSE default

\* isinstance(True, int) holds in Python: a JSON boolean is returned as it
\* is, and counts as 1 or 0 wherever the value is used.
_as_int(value, default) ==
  IF value[1] = "int" THEN value[2]
  ELSE IF value[1] = "bool" THEN (IF value[2] THEN 1 ELSE 0)
  ELSE IF value[1] = "str" THEN (IF value[2] \in IntTexts THEN IntOf(value[2]) ELSE default)
  ELSE default

LlmConfig(enabled, top_k, mode, ttl) ==
  [raised |-> None, rerank_enabled |-> enabled, rerank_top_k |-> top_k, rerank_mode |-> mode,
   rerank_cache_ttl_seconds |-> ttl]

\* str(data.get("rerank_mode") or "per_meal"): a falsy value gives the
\* default, any other value its text.
ModeText(value) ==
  IF value[1] \in {"absent", "null"} THEN "per_meal"
  ELSE IF value[1] = "str" THEN (IF value[2] = "" THEN "per_meal" ELSE value[2])
  ELSE "other"

\* load_llm_config: file.kind is "missing", "invalid" (not JSON), "array"
\* (JSON, but no object: data.get raises AttributeError) or "object".
load_llm_config(file) ==
  IF file.kind \in {"missing", "invalid"} THEN LlmConfig(TRUE, 10, "per_meal", 86400)
  ELSE IF file.kind = "array"
    THEN [LlmConfig(TRUE, 10, "per_meal", 86400) EXCEPT !.raised = "AttributeError"]
  ELSE LlmConfig(_as_bool(file.rerank_enabled, TRUE), _as_int(file.rerank_top_k, 10),
                 ModeText(file.rerank_mode), _as_int(file.rerank_cache_ttl_seconds, 86400))

JsonFiles ==
  [kind : {"missing", "invalid", "array"}, rerank_enabled : {<<"absent">>},
   rerank_top_k : {<<"absent">>}, rerank_mode : {<<"absent">>},
   rerank_cache_ttl_seconds : {<<"absent">>}]
  \cup
  [kind : {"object"},
   rerank_enabled : {<<"absent">>, <<"bool", FALSE>>, <<"str", "maybe">>},
   rerank_top_k : {<<"absent">>, <<"str", "abc">>},
   rerank_mode : {<<"absent">>, <<"str", "weekly">>},
   rerank_cache_ttl_seconds :
     {<<"absent">>, <<"null">>, <<"int", 1>>, <<"str", "120">>, <<"str", "abc">>,
      <<"float">>, <<"bool", TRUE>>}]

Environs ==
  [RERANK_ENABLED : {Unset, "true", "True", "false", "maybe"},
   RERANK_TOP_K : {Unset, "10", "5", " 7 ", "abc", ""},
   RERANK_MODE : {Unset, "per_meal", "per_day", "per_plan", "weekly"},
   file : JsonFiles]

NoEnviron ==
  [RERANK_ENABLED |-> Unset, RERANK_TOP_K |-> Unset, RERANK_MODE |-> Unset,
   file |-> [kind |-> "missing", rerank_enabled |-> <<"absent">>,
             rerank_top_k |-> <<"absent">>, rerank_mode |-> <<"absent">>,
             rerank_cache_ttl_seconds |-> <<"absent">>]]

\* ---- one run of generate_meal_plan
RerankModes == {"per_meal", "per_day", "per_plan"}

\* What the service did so far (kept by the actions of SpecRerank):
\*   stored    the latest store on each key: [key, value, time]
\*   answered  the latest answer of the backend for each key: [key, time]
\*   prior     answered before the last step, for the keys of that step
\*   keys      the keys of the requests of the last step
\*   called    the last step called the backend
\*   lookup    the lookup of the last step: its key, the value _cache_get gave,
\*             whether the entry is in the cache after it, and the latest
\*             store on the key before it
NoKey == _cache_key("", <<0, None>>, <<>>, None, <<>>)
NoStore == [key |-> NoKey, value |-> Absent, time |-> 0]
NoLookup == [looked |-> FALSE, key |-> NoKey, value |-> Absent, kept |-> FALSE,
             was_stored |-> FALSE, store |-> NoStore]
NoSvc == [stored |-> {}, answered |-> {}, prior |-> {}, keys |-> {}, called |-> FALSE,
          lookup |-> NoLookup]

\* ---- the processes that serve requests
\* The threads that call the reranker, and the key they look up and store.
Threads == {1, 2}
CachedKey ==
  _cache_key("", <<1, "breakfast">>, <<"A", "B">>,
             [meal_type |-> "breakfast", time_limit_minutes |-> 0], <<>>)
CachedValues == {Object(id, None, Reasons("missing", <<>>)) : id \in {"A", "B"}}

\* A thread between two calls; item is the local of _cache_get, entry the
\* dict _cache_set has built.
NoItem == [key |-> NoKey, value |-> Absent, expires_at |-> 0]
IdleThread == [pc |-> "idle", item |-> NoItem, entry |-> NoItem]

\* The addresses request.client.host takes.
ClientIps == {"10.0.0.1", "unknown"}
\* rate_limit_state.get(client_ip) of an address that is not stored.
NoState == [stored |-> FALSE, window_start |-> 0, count |-> 0]
\* No request answered yet.  opened: the request found a stored window that was
\* over; refused: the addresses answered 429 so far.
NoHttp == [client_ip |-> None, status |-> 0, forwarded |-> FALSE, opened |-> FALSE,
           refused |-> {}]

NotServing ==
  /\ threads = [t \in Threads |-> IdleThread]
  /\ rate_limit_state = [ip \in ClientIps |-> NoState]
  /\ http = NoHttp

\* What the runs of generate_meal_plan below do not touch.
Outside ==
  /\ environ = NoEnviron
  /\ applied = NoApplied
  /\ NotServing

\* Lines 46-69 and the first lines of the first day.
LocalsButMacros ==
  /\ error = None
  /\ day_offset = 0
  /\ m_idx = 1
  /\ meal_plan = <<>>
  /\ daily_meals = <<>>
  /\ warnings = <<>>
  /\ defaults_applied = <<>>
  /\ used_recipes = {}
  /\ used_today = {}
  /\ prev_day_ingredient_tokens = {}
  /\ prev_day_dish_types = {}
  /\ day_ingredient_tokens = {}
  /\ day_dish_types = {}
  /\ recent_recipe_history = <<>>
  /\ selected_titles = <<>>
  /\ day_entries = <<>>
  /\ plan_batch_days = <<>>
  /\ snapshot = [selected_titles |-> <<>>, used_recipes |-> {}]
  /\ fin = NoFin
  /\ summary = NoSummary
  /\ last = NoLast
  /\ svc = NoSvc
  /\ recipe_service = NoRecipeService
  /\ remote_calls = 0
  /\ scored_with = <<[recent_ingredient_tokens |-> {}, recent_dish_types |-> {},
                      recent_ids |-> {}]>>

Locals ==
  /\ LocalsButMacros
  /\ day_macros = NoMacros

Init ==
  /\ rerank_mode \in RerankModes
  /\ rerank_enabled \in BOOLEAN
  /\ rerank_top_k \in {1, DEFAULT_RERANK_TOP_K}
  /\ client \in BOOLEAN
  /\ parsed \in [days : 1..MaxDays, meals_per_day : {3, 4}, preferences : PreferenceChoices,
                  exclude : ExcludeChoices]
  /\ cache_ttl_seconds \in 0..MaxTtl
  /\ cache = {}
  /\ now = 0
  /\ pc = "slot"
  /\ Locals
  /\ Outside
  /\ query = NoQuery

Next ==
  \/ PerMealSlot
  \/ BatchSlot
  \/ EndDay
  \/ EndDayPerPlan
  \/ EndDayPerDay
  \/ PlanBatch
  \/ FinalizeEntry
  \/ FinalizeReturnDay
  \/ FinalizeReturnPlan
  \/ Summarize

Spec == Init /\ [][Next]_vars

\* ---- calls of the shared RerankerService, with the clock moving
\* A request: the arguments of rerank, and an entry of rerank_batch.
Request(slot, meal, ids, fallback_id) ==
  [meal_slot |-> slot, meal_type |-> meal, candidates |-> ids,
   constraints |-> [meal_type |-> meal, time_limit_minutes |-> 0], history |-> <<>>,
   fallback_id |-> fallback_id]

\* Two requests with one key (the candidate ids are sorted into it), one with
\* another key, and one with a single candidate.
Requests ==
  { Request(<<1, "breakfast">>, "breakfast", <<"A", "B">>, "A"),
    Request(<<1, "breakfast">>, "breakfast", <<"B", "A">>, "B"),
    Request(<<1, "lunch">>, "lunch", <<"B", "C">>, "B"),
    Request(<<1, "dinner">>, "dinner", <<"D">>, "D") }

RequestKey(req) ==
  _cache_key("query", req.meal_slot, req.candidates, req.constraints, req.history)

StoreOf(key) ==
  IF \E st \in svc.stored : st.key = key
    THEN CHOOSE st \in svc.stored : st.key = key
  ELSE NoStore

Answer(key) == [key |-> key, time |-> now]
Answered(keys) ==
  {a \in svc.answered : a.key \notin keys} \cup {Answer(key) : key \in keys}

\* The answers of the backend tried on the service: one of each kind that
\* rerank tells apart.
ServiceResponses(offered) ==
  {Raised, Empty, Array}
    \cup {Object(id, None, Reasons("list", <<"best fit">>)) : id \in offered}

\* What a call of rerank leaves behind.
Served(req, key, response, out, looked) ==
  /\ cache' = out.cache
  /\ svc' = [stored |-> IF out.called /\ Truthy(response)
                          THEN {st \in svc.stored : st.key # key}
                                 \cup {[key |-> key, value |-> response, time |-> now]}
                        ELSE svc.stored,
             answered |-> IF out.called /\ response.shape # "raised"
                            THEN Answered({key}) ELSE svc.answered,
             prior |-> {a \in svc.answered : a.key = key},
             keys |-> {key},
             called |-> out.called,
             lookup |-> IF Len(req.candidates) >= 2 /\ client
                          THEN [looked |-> TRUE, key |-> key, value |-> looked.value,
                                kept |-> key \in CacheKeys(looked.cache),
                                was_stored |-> \E st \in svc.stored : st.key = key,
                                store |-> StoreOf(key)]
                        ELSE NoLookup]

Serve(req, key, response) ==
  Served(req, key, response,
         rerank(key, req.candidates, req.fallback_id, client, response, cache, now,
                cache_ttl_seconds),
         _cache_get(cache, key, now))

\* A call of RerankerService.rerank.
SvcRerank ==
  /\ pc = "service"
  /\ \E req \in Requests :
       \E response \in ServiceResponses(SeqToSet(req.candidates)) :
         Serve(req, RequestKey(req), response)
  /\ UNCHANGED <<config_vars, recipe_service, remote_calls>>
  /\ UNCHANGED <<pc, error, day_offset, m_idx, meal_plan, daily_meals, warnings,
                 defaults_applied, used_recipes, used_today, prev_day_ingredient_tokens,
                 prev_day_dish_types, day_ingredient_tokens, day_dish_types, day_macros,
                 recent_recipe_history, selected_titles, day_entries, plan_batch_days,
                 snapshot, fin, summary, now, last>>

\* The entry lists rerank_batch is called with.
BatchRequests ==
  { <<Request(<<1, "breakfast">>, "breakfast", <<"A", "B">>, "A"),
      Request(<<1, "dinner">>, "dinner", <<"D">>, "D")>>,
    <<>> }

BatchKeys(entries) ==
  {RequestKey(BatchPayload(entries)[i]) : i \in 1..Len(BatchPayload(entries))}

\* What a call of rerank_batch leaves behind: it reads and writes no cache.
BatchServed(entries, shape, status) ==
  svc' = [stored |-> svc.stored,
          answered |-> IF status # "none" /\ shape # "raised"
                         THEN Answered(BatchKeys(entries))
                       ELSE svc.answered,
          prior |-> {a \in svc.answered : a.key \in BatchKeys(entries)},
          keys |-> BatchKeys(entries),
          called |-> status # "none",
          lookup |-> NoLookup]

\* A call of RerankerService.rerank_batch.
SvcRerankBatch ==
  /\ pc = "service"
  /\ \E entries \in BatchRequests :
       \E shape \in ShapesFor(entries) :
         BatchServed(entries, shape, rerank_batch(entries, client, shape))
  /\ UNCHANGED <<config_vars, recipe_service, remote_calls>>
  /\ UNCHANGED <<pc, error, day_offset, m_idx, meal_plan, daily_meals, warnings,
                 defaults_applied, used_recipes, used_today, prev_day_ingredient_tokens,
                 prev_day_dish_types, day_ingredient_tokens, day_dish_types, day_macros,
                 recent_recipe_history, selected_titles, day_entries, plan_batch_days,
                 snapshot, fin, summary, cache, now, last>>

\* time.time() moves on between two calls.
SvcTick ==
  /\ pc = "service"
  /\ now < MaxClock
  /\ now' = now + 1
  /\ svc' = [svc EXCEPT !.prior = {}, !.keys = {}, !.called = FALSE, !.lookup = NoLookup]
  /\ UNCHANGED <<config_vars, recipe_service, remote_calls>>
  /\ UNCHANGED <<pc, error, day_offset, m_idx, meal_plan, daily_meals, warnings,
                 defaults_applied, used_recipes, used_today, prev_day_ingredient_tokens,
                 prev_day_dish_types, day_ingredient_tokens, day_dish_types, day_macros,
                 recent_recipe_history, selected_titles, day_entries, plan_batch_days,
                 snapshot, fin, summary, cache, last>>

\* The service as the module constructs it (line 18-20), with any configuration.
InitRerank ==
  /\ rerank_mode = "per_meal"
  /\ rerank_enabled = TRUE
  /\ rerank_top_k = DEFAULT_RERANK_TOP_K
  /\ client \in BOOLEAN
  /\ parsed = [days |-> 1, meals_per_day |-> 3, preferences |-> <<>>, exclude |-> {}]
  /\ cache_ttl_seconds \in 0..MaxTtl
  /\ cache = {}
  /\ now = 0
  /\ pc = "service"
  /\ Locals
  /\ Outside
  /\ query = NoQuery

NextRerank ==
  \/ SvcRerank
  \/ SvcRerankBatch
  \/ SvcTick

SpecRerank == InitRerank /\ [][NextRerank]_vars

\* ------------------------------------------- RecipeService.get_recipes, called
\* The seconds between two calls of the service.
TickSeconds == 150

\* What a source returns when it answers: the local source its recipes that
\* pass the filters, TheMealDB one recipe "M" for dinner and nothing else.
SourceAnswer(name, meal_type) ==
  IF name = "Local" THEN get_recipes(meal_type)
  ELSE IF meal_type = "dinner" THEN <<"M">> ELSE <<>>

\* What each source does when it is fetched from.
Behaviours == [SeqToSet(SourceNames) -> {"answers", "raises"}]

\* A service that fetches from every registered source.
EverySource(sources) == {"Local", "TheMealDB"}

\* Line 37: sources if sources else ["Local"].
active_source_names(sources) == IF sources = {} THEN {"Local"} ELSE sources

RecipeCacheHit(c, key, time) ==
  {e \in c : e.key = key /\ time - e.timestamp < recipe_cache_ttl_seconds}

\* Lines 41-61, one iteration of `for source in self.sources`; acc holds
\* all_recipes, errors, the cache and the names that answered.
SourceStep(acc, name, active, meal_type, behaves, time) ==
  IF name \notin active THEN acc
  ELSE IF RecipeCacheHit(acc.cache, <<name, meal_type>>, time) # {}
    THEN [acc EXCEPT
            !.all_recipes =
               @ \o (CHOOSE e \in RecipeCacheHit(acc.cache, <<name, meal_type>>, time) : TRUE).recipes,
            !.answered = @ \cup {name}]
  ELSE IF behaves[name] = "raises"
    THEN [acc EXCEPT !.errors = Append(@, name), !.calls = @ \cup {name}]
  ELSE [acc EXCEPT
          !.all_recipes = @ \o SourceAnswer(name, meal_type),
          !.calls = @ \cup {name},
          !.answered = @ \cup {name},
          !.cache = {e \in @ : e.key # <<name, meal_type>>}
                      \cup {[key |-> <<name, meal_type>>, timestamp |-> time,
                             recipes |-> SourceAnswer(name, meal_type)]}]

\* Lines 32-61: the loop over self.sources.
SourceLoop(active, meal_type, behaves, c, time) ==
  SourceStep(SourceStep([all_recipes |-> <<>>, errors |-> <<>>, cache |-> c, answered |-> {},
                         calls |-> {}],
                        SourceNames[1], active, meal_type, behaves, time),
             SourceNames[2], active, meal_type, behaves, time)

\* Lines 63-66: raise RecipeSourceError or return all_recipes.
RecipesOut(acc, active, meal_type, sources) ==
  [cache |-> acc.cache,
   sources |-> sources,
   calls |-> acc.calls,
   fetched |-> Fetched(TRUE, active \cap SeqToSet(SourceNames), acc.answered,
                       SeqToSet(acc.errors),
                       IF acc.all_recipes = <<>> /\ acc.errors # <<>> THEN "raised"
                       ELSE "returned",
                       acc.all_recipes, meal_type)]

\* RecipeService.get_recipes, for the diets and exclusions of the query.
RsGetRecipes ==
  /\ pc = "recipes"
  /\ \E sources \in SUBSET SeqToSet(SourceNames) :
     \E meal_type \in {"breakfast", "dinner"} :
     \E behaves \in Behaviours :
       recipe_service' =
         RecipesOut(SourceLoop(active_source_names(sources), meal_type, behaves,
                               recipe_service.cache, now),
                    active_source_names(sources), meal_type, sources)
  /\ UNCHANGED config_vars
  /\ UNCHANGED <<pc, error, day_offset, m_idx, meal_plan, daily_meals, warnings,
                 defaults_applied, used_recipes, used_today, prev_day_ingredient_tokens,
                 prev_day_dish_types, day_ingredient_tokens, day_dish_types, day_macros,
                 recent_recipe_history, selected_titles, day_entries, plan_batch_days,
                 snapshot, fin, summary, cache, now, last, svc, remote_calls>>

\* Time passes between two calls.
RsTick ==
  /\ pc = "recipes"
  /\ now < MaxClock * TickSeconds
  /\ now' = now + TickSeconds
  /\ recipe_service' = [recipe_service EXCEPT !.fetched = NoFetched, !.sources = {},
                                              !.calls = {}]
  /\ UNCHANGED config_vars
  /\ UNCHANGED <<pc, error, day_offset, m_idx, meal_plan, daily_meals, warnings,
                 defaults_applied, used_recipes, used_today, prev_day_ingredient_tokens,
                 prev_day_dish_types, day_ingredient_tokens, day_dish_types, day_macros,
                 recent_recipe_history, selected_titles, day_entries, plan_batch_days,
                 snapshot, fin, summary, cache, last, svc, remote_calls>>

InitRecipes ==
  /\ rerank_mode = "per_meal"
  /\ rerank_enabled = FALSE
  /\ rerank_top_k = DEFAULT_RERANK_TOP_K
  /\ client = FALSE
  /\ parsed \in [days : {1}, meals_per_day : {3}, preferences : {<<>>}, exclude : ExcludeChoices]
  /\ cache_ttl_seconds = 0
  /\ cache = {}
  /\ now = 0
  /\ pc = "recipes"
  /\ Locals
  /\ Outside
  /\ query = NoQuery

NextRecipes ==
  \/ RsGetRecipes
  \/ RsTick

SpecRecipes == InitRecipes /\ [][NextRecipes]_vars

\* ------------------------------------ a backend that never answers a call
\* _call_llm and _call_llm_batch pass no timeout to
\* ai_service.client.chat.completions.create and nothing around them bounds
\* the call: when the backend never answers, the run stays in the call.
\* The slot's call of rerank reaches _call_llm (whatever the answer would be).
SlotCallsBackend ==
  Retried(_pick_best_recipe(available_candidates, context, meal_slot, history, constraints,
                            rerank_enabled, Raised),
          FallbackPool(candidates), Raised).called

RemoteCallNeverAnswered ==
  /\ \/ pc = "slot" /\ ~batch_mode /\ rerank_enabled /\ client /\ SlotCallsBackend
     \/ pc = "endday" /\ batch_mode /\ ~per_plan_batch
          /\ rerank_batch(day_entries, client, "selections") # "none"
     \/ pc = "plan_batch" /\ rerank_batch(plan_batch_entries, client, "selections") # "none"
  /\ pc' = "blocked"
  /\ remote_calls' = remote_calls + 1
  /\ last' = NoLast
  /\ UNCHANGED <<config_vars, recipe_service>>
  /\ UNCHANGED <<error, day_offset, m_idx, meal_plan, daily_meals, warnings,
                 defaults_applied, used_recipes, used_today, prev_day_ingredient_tokens,
                 prev_day_dish_types, day_ingredient_tokens, day_dish_types, day_macros,
                 recent_recipe_history, selected_titles, day_entries, plan_batch_days,
                 snapshot, fin, summary, cache, now, svc>>

\* One-day plans, the backend answering or not.
InitBlocking ==
  /\ Init
  /\ parsed.days = 1
  /\ parsed.exclude = {}
  /\ cache_ttl_seconds = MaxTtl

NextBlocking ==
  \/ Next
  \/ RemoteCallNeverAnswered

SpecBlocking == InitBlocking /\ [][NextBlocking]_vars

\* --------------------------------------- the macro balance penalty, applied
\* _macro_balance_penalty(day_macros, nutrition) for the macros of the day so
\* far and the nutrition of a candidate (lines 564-591).
ApplyPenalty ==
  /\ pc = "penalty"
  /\ \E nutrition \in MacroChoices :
       applied' = [done |-> TRUE, nutrition |-> nutrition,
                   penalty |-> _macro_balance_penalty(day_macros, nutrition)]
  /\ UNCHANGED <<rerank_mode, rerank_enabled, rerank_top_k, client, parsed, query, environ,
                 cache_ttl_seconds>>
  /\ UNCHANGED <<pc, error, day_offset, m_idx, meal_plan, daily_meals, warnings,
                 defaults_applied, used_recipes, used_today, prev_day_ingredient_tokens,
                 prev_day_dish_types, day_ingredient_tokens, day_dish_types, day_macros,
                 recent_recipe_history, selected_titles, day_entries, plan_batch_days,
                 snapshot, fin, summary, cache, now, last, svc, recipe_service,
                 remote_calls, scored_with>>
  /\ UNCHANGED serving_vars

InitPenalty ==
  /\ rerank_mode = "per_meal"
  /\ rerank_enabled = FALSE
  /\ rerank_top_k = DEFAULT_RERANK_TOP_K
  /\ client = FALSE
  /\ parsed = [days |-> 1, meals_per_day |-> 3, preferences |-> <<>>, exclude |-> {}]
  /\ query = NoQuery
  /\ cache_ttl_seconds = 0
  /\ cache = {}
  /\ now = 0
  /\ pc = "penalty"
  /\ LocalsButMacros
  /\ day_macros \in MacroChoices
  /\ Outside

NextPenalty == ApplyPenalty

SpecPenalty == InitPenalty /\ [][NextPenalty]_vars

\* reranker_service = RerankerService(), constructed when planner.py imports
\* the module (planner.py line 15): cache_ttl_seconds is read from the file.
ConstructReranker ==
  /\ pc = "import"
  /\ cache_ttl_seconds' = load_llm_config(environ.file).rerank_cache_ttl_seconds
  /\ error' = load_llm_config(environ.file).raised
  /\ pc' = IF load_llm_config(environ.file).raised = None THEN "reranker" ELSE "error"
  /\ UNCHANGED <<rerank_mode, rerank_enabled, rerank_top_k, client, parsed, query, environ,
                 applied>>
  /\ UNCHANGED <<day_offset, m_idx, meal_plan, daily_meals, warnings,
                 defaults_applied, used_recipes, used_today, prev_day_ingredient_tokens,
                 prev_day_dish_types, day_ingredient_tokens, day_dish_types, day_macros,
                 recent_recipe_history, selected_titles, day_entries, plan_batch_days,
                 snapshot, fin, summary, cache, now, last, svc, recipe_service,
                 remote_calls, scored_with>>
  /\ UNCHANGED serving_vars

\* planner = MealPlanner(): lines 19-21 read the environment; int() of a
\* text that denotes no integer raises ValueError out of __init__.
ConstructPlanner ==
  /\ pc = "reranker"
  /\ rerank_enabled' = (Lower(getenv(environ.RERANK_ENABLED, "true")) = "true")
  /\ IF getenv(environ.RERANK_TOP_K, "10") \in IntTexts
       THEN /\ rerank_top_k' = IntOf(getenv(environ.RERANK_TOP_K, "10"))
            /\ rerank_mode' = getenv(environ.RERANK_MODE, "per_meal")
            /\ error' = None
            /\ pc' = "constructed"
       ELSE /\ error' = ValueError
            /\ pc' = "error"
            /\ UNCHANGED <<rerank_top_k, rerank_mode>>
  /\ UNCHANGED <<client, parsed, query, environ, applied, cache_ttl_seconds>>
  /\ UNCHANGED <<day_offset, m_idx, meal_plan, daily_meals, warnings,
                 defaults_applied, used_recipes, used_today, prev_day_ingredient_tokens,
                 prev_day_dish_types, day_ingredient_tokens, day_dish_types, day_macros,
                 recent_recipe_history, selected_titles, day_entries, plan_batch_days,
                 snapshot, fin, summary, cache, now, last, svc, recipe_service,
                 remote_calls, scored_with>>
  /\ UNCHANGED serving_vars

\* Before the import nothing is configured; the fields hold placeholders.
InitConfig ==
  /\ rerank_mode = None
  /\ rerank_enabled = FALSE
  /\ rerank_top_k = 0
  /\ client = FALSE
  /\ parsed = [days |-> 1, meals_per_day |-> 3, preferences |-> <<>>, exclude |-> {}]
  /\ query = NoQuery
  /\ environ \in Environs
  /\ applied = NoApplied
  /\ NotServing
  /\ cache_ttl_seconds = 0
  /\ cache = {}
  /\ now = 0
  /\ pc = "import"
  /\ Locals

NextConfig ==
  \/ ConstructReranker
  \/ ConstructPlanner

SpecConfig == InitConfig /\ [][NextConfig]_vars

\* ----------------------------- the head of generate_meal_plan: parse, validate
\* Lines 34-37: parsed = parser_service.parse(request.query).
ParseQuery ==
  /\ pc = "request"
  /\ parsed' \in parse(query, client)
  /\ pc' = "parsed"
  /\ UNCHANGED <<rerank_mode, rerank_enabled, rerank_top_k, client, query, environ,
                 applied, cache_ttl_seconds>>
  /\ UNCHANGED <<error, day_offset, m_idx, meal_plan, daily_meals, warnings,
                 defaults_applied, used_recipes, used_today, prev_day_ingredient_tokens,
                 prev_day_dish_types, day_ingredient_tokens, day_dish_types, day_macros,
                 recent_recipe_history, selected_titles, day_entries, plan_batch_days,
                 snapshot, fin, summary, cache, now, last, svc, recipe_service,
                 remote_calls, scored_with>>
  /\ UNCHANGED serving_vars

\* Lines 39-41: conflict_resolver.validate(parsed); what it raises leaves
\* generate_meal_plan.
Validate ==
  /\ pc = "parsed"
  /\ error' = validate(parsed)
  /\ pc' = IF validate(parsed) = None THEN "validated" ELSE "rejected"
  /\ UNCHANGED config_vars
  /\ UNCHANGED <<day_offset, m_idx, meal_plan, daily_meals, warnings,
                 defaults_applied, used_recipes, used_today, prev_day_ingredient_tokens,
                 prev_day_dish_types, day_ingredient_tokens, day_dish_types, day_macros,
                 recent_recipe_history, selected_titles, day_entries, plan_batch_days,
                 snapshot, fin, summary, cache, now, last, svc, recipe_service,
                 remote_calls, scored_with>>

\* Lines 94-99: the first recipe_service.get_recipes of the plan loop, for
\* the first meal type and request.sources.
FirstFetch ==
  /\ pc = "validated"
  /\ \E sources \in SUBSET SeqToSet(SourceNames) :
     \E behaves \in Behaviours :
       recipe_service' =
         RecipesOut(SourceLoop(active_source_names(sources), "breakfast", behaves,
                               recipe_service.cache, now),
                    active_source_names(sources), "breakfast", sources)
  /\ pc' = "fetched"
  /\ UNCHANGED config_vars
  /\ UNCHANGED <<error, day_offset, m_idx, meal_plan, daily_meals, warnings,
                 defaults_applied, used_recipes, used_today, prev_day_ingredient_tokens,
                 prev_day_dish_types, day_ingredient_tokens, day_dish_types, day_macros,
                 recent_recipe_history, selected_titles, day_entries, plan_batch_days,
                 snapshot, fin, summary, cache, now, last, svc, remote_calls>>

InitRequest ==
  /\ rerank_mode = "per_meal"
  /\ rerank_enabled = FALSE
  /\ rerank_top_k = DEFAULT_RERANK_TOP_K
  /\ client \in BOOLEAN
  /\ parsed = ParsedQuery(3, {}, NoEnhanced)
  /\ query \in Queries
  /\ cache_ttl_seconds = 0
  /\ cache = {}
  /\ now = 0
  /\ pc = "request"
  /\ Locals
  /\ Outside

NextRequest ==
  \/ ParseQuery
  \/ Validate
  \/ FirstFetch

SpecRequest == InitRequest /\ [][NextRequest]_vars

\* ------------------------------------------------------------- properties
\* The id the validation of a response is to give: selected_id if offered,
\* else backup_id if offered, else the fallback id.
ExpectedId(response, offered, fallback_id) ==
  IF response.shape = "object" /\ response.selected_id \in offered THEN response.selected_id
  ELSE IF response.shape = "object" /\ response.backup_id \in offered THEN response.backup_id
  ELSE fallback_id

\* A response that names neither an offered selected_id nor an offered backup_id.
Malformed(response, offered) ==
  \/ response.shape # "object"
  \/ response.selected_id \notin offered /\ response.backup_id \notin offered

\* C1: in per-meal mode, whatever the remote call gives, rerank returns the
\* response's selected_id if it is offered, else its backup_id if that is
\* offered, else the fallback id of the deterministic winner with no reasons,
\* and the planner commits the recipe carrying the returned id.
RerankValidates ==
  last.kind = "slot" /\ last.called =>
    /\ last.outcome = "returned"
    /\ last.returned_id =
         ExpectedId(last.response, SeqToSet(last.offered), last.ranked[1].id)
    /\ (Malformed(last.response, SeqToSet(last.offered)) => last.reasons = NoReasons)
    /\ last.committed = last.returned_id

\* C2: in per-day and per-plan mode, a slot whose item of the batch response is
\* missing or names no offered id emits the slot's deterministic winner (the
\* first of its ranked list) with no reasons, whatever the other slots got.
BatchSlotFallsBack ==
  /\ last.kind = "final"
  /\ last.outcome = "returned"
  /\ Malformed(last.response, SeqToSet(last.offered))
  => last.committed = last.ranked[1].id /\ last.reasons = NoReasons

\* The batched call failed: no backend, an exception, or a response without a
\* selections list.
FailedShapes == {"absent", "raised", "empty", "array", "nolist"}

\* C3: in per-day and per-plan mode, when the batched call fails, the plan is
\* the plan of the run with reranking disabled: the call does not end the
\* run, every slot emits the recipe committed provisionally (the one the
\* disabled run commits) with no reasons, and the day leaves behind the
\* used ids, tokens, dish types and titles of the provisional commits.
BatchFailureKeepsWinners ==
  /\ last.kind = "batch_call" /\ last.response.shape \in FailedShapes
       => last.outcome = "returned"
  /\ last.kind = "final" /\ fin.status \in {"none", "empty"}
       => /\ last.outcome = "returned"
          /\ last.committed = last.ranked[1].id
          /\ last.reasons = NoReasons
  /\ pc = "finalize" /\ fin.day_idx = 0 /\ fin.idx > Len(fin.entries)
       /\ fin.status \in {"none", "empty"}
       => /\ fin.used_today = used_today
          /\ snapshot.used_recipes \cup fin.used_today = used_recipes
          /\ fin.day_ingredient_tokens = day_ingredient_tokens
          /\ fin.day_dish_types = day_dish_types
          /\ AppendTitles(snapshot.selected_titles, fin.selected_titles) = selected_titles

\* C4: no outcome of the remote call ends plan generation: generate_meal_plan
\* returns a plan and no exception caused by the response reaches the caller.
NoRemoteOutcomeTerminates == pc # "error" /\ error = None

MealsOf(plan, meal) ==
  {i \in 1..Len(plan.meals) : plan.meals[i].meal_type = meal}

\* C5: a slot whose primary pool is empty while its filtered candidate set is
\* not is filled from a looser pool; a slot stays empty, with a "No candidates
\* found" warning, only when its filtered candidate set is empty.
LooserPoolBeforeEmpty ==
  /\ last.kind \in {"slot", "provisional"} /\ last.outcome = "returned" =>
       /\ last.primary = <<>> /\ last.candidates # <<>>
            => /\ last.tier > 0
               /\ last.committed \in SeqToSet(last.candidates)
       /\ last.committed = None <=> last.candidates = <<>>
       /\ Warning("No candidates found", last.slot[2], last.slot[1]) \in SeqToSet(warnings)
            <=> last.candidates = <<>>
  /\ pc = "done" =>
       \A d \in 1..Len(meal_plan) : \A i \in 1..Len(meal_types) :
         /\ Cardinality(MealsOf(meal_plan[d], meal_types[i])) <= 1
         /\ MealsOf(meal_plan[d], meal_types[i]) = {}
              <=> TimeFilter(meal_types[i]).candidates = <<>>
         /\ Warning("No candidates found", meal_types[i], d) \in SeqToSet(warnings)
              <=> TimeFilter(meal_types[i]).candidates = <<>>

\* C5 happens: a slot with an empty primary pool was filled from a looser pool.
FilledFromLooserPool ==
  /\ last.kind \in {"slot", "provisional"}
  /\ last.primary = <<>>
  /\ last.candidates # <<>>
  /\ last.tier > 0
  /\ last.committed # None

AllWithin(meals) ==
  \A i \in 1..Len(meals) : meals[i].recipe \in SeqToSet(get_recipes(meals[i].meal_type))

Sorted(ranked) ==
  \A i, j \in 1..Len(ranked) :
    i < j => \/ FracLess(ranked[j].score, ranked[i].score)
             \/ /\ FracEq(ranked[i].score, ranked[j].score)
                /\ IdOrd(ranked[i].id) < IdOrd(ranked[j].id)

\* C7: the ranked list is ordered by score minus penalty descending, then id
\* ascending, and a slot for which reranking is not active commits its first
\* element.
RankedOrder ==
  last.kind \in {"slot", "provisional", "final"} =>
    /\ Sorted(last.ranked)
    /\ last.kind = "slot" /\ ~last.called /\ last.ranked # <<>>
         => last.committed = last.ranked[1].id
    /\ last.kind = "provisional" /\ last.ranked # <<>>
         => last.committed = last.ranked[1].id
    /\ last.kind = "final" /\ fin.status = "none"
         => last.committed = last.ranked[1].id

\* C7 happens: two candidates with equal scores were ranked and the slot,
\* with no reranking, committed the one with the smaller id.
TieBrokenById ==
  /\ last.kind = "slot"
  /\ ~last.active
  /\ Len(last.ranked) >= 2
  /\ FracEq(last.ranked[1].score, last.ranked[2].score)
  /\ last.committed = last.ranked[1].id

\* C8: after a store on a key at time t, every lookup of the key up to
\* t + ttl gives the stored value, every lookup after t + ttl gives absent,
\* and the lookup after expiry removes the entry.
CacheTtl ==
  svc.lookup.looked =>
    /\ svc.lookup.was_stored /\ now <= svc.lookup.store.time + cache_ttl_seconds
         => svc.lookup.value = svc.lookup.store.value
    /\ svc.lookup.was_stored /\ now > svc.lookup.store.time + cache_ttl_seconds
         => svc.lookup.value = Absent /\ ~svc.lookup.kept
    /\ ~svc.lookup.was_stored => svc.lookup.value = Absent

\* C8 happens: a lookup after the expiry of a stored entry.
ExpiredLookup ==
  /\ svc.lookup.looked
  /\ svc.lookup.was_stored
  /\ now > svc.lookup.store.time + cache_ttl_seconds
  /\ ~svc.lookup.kept

\* C9: in every mode every answer of the backend is cached: a request with
\* the key of a request the backend answered less than the TTL ago is
\* answered without a remote call.
EveryResponseCached ==
  svc.called => \A a \in svc.prior : ~(now - a.time < cache_ttl_seconds)

\* C10: a slot is submitted to the backend only when reranking is enabled, a
\* backend is configured and the slot's top-K holds at least 2 candidates;
\* otherwise it commits the deterministic winner with no reasons.
SubmittedOnlyWhenEligible ==
  /\ last.kind = "slot" /\ last.called
       => rerank_enabled /\ client /\ Len(last.offered) >= 2
  /\ last.kind = "batch_call" /\ last.called
       => /\ rerank_enabled /\ client
          /\ \A i \in 1..Len(last.payload) : Len(last.payload[i].candidates) >= 2
  /\ last.kind = "slot" /\ last.outcome = "returned" /\ last.committed # None
       /\ ~(rerank_enabled /\ client /\ Len(TopCandidates(last.ranked)) >= 2)
       => ~last.called /\ last.committed = last.ranked[1].id /\ last.reasons = NoReasons


\* The candidates used neither today nor in the last two days.
UnusedRecently(cands) ==
  SelectSeq(cands, LAMBDA id : id \notin used_today /\ id \notin recent_ids)

\* C11: a slot whose primary pool is empty ranks the candidates used neither
\* today nor in the last two days and, if and only if there is none, the
\* full filtered candidate set; it ranks no other pool.
TwoFallbackPools ==
  [][pc = "slot" /\ available_candidates = <<>> /\ candidates # <<>>
       /\ last'.kind \in {"slot", "provisional"} /\ last'.outcome = "returned"
     => SeqToSet(Ids(last'.ranked)) =
          SeqToSet(IF UnusedRecently(candidates) # <<>> THEN UnusedRecently(candidates)
                   ELSE candidates)]_vars


\* The slot just handled was filled from a fallback pool.
FromFallback(l) ==
  l.kind \in {"slot", "provisional"} /\ l.outcome = "returned" /\ l.tier > 0
    /\ l.committed # None

\* C12: a fallback record is added for a slot exactly when the slot's recipe
\* was drawn from a fallback pool, and the record identifies the tier that
\* supplied it: two slots filled from different tiers get records that differ
\* in more than the slot they name.
FallbackRecordNamesTier ==
  [][pc = "slot" /\ last'.kind \in {"slot", "provisional"} /\ last'.outcome = "returned"
     => /\ defaults_applied' =
             IF FromFallback(last') THEN defaults_applied \o reused_pool
             ELSE defaults_applied
        /\ FromFallback(last) /\ FromFallback(last') /\ last.tier # last'.tier
             => defaults_applied'[Len(defaults_applied')].kind
                  # defaults_applied[Len(defaults_applied)].kind]_vars


\* C13: after generate_meal_plan returns, the summary lists every warning and
\* every applied fallback that the loop recorded.
SummaryListsRecords ==
  pc = "done" =>
    /\ summary.warnings = warnings
    /\ summary.defaults_applied = defaults_applied


\* The reasons of the backend's item for the slot, as the claim allows them.
AllowedReasons(l) ==
  l.reasons = NoReasons
    \/ /\ Len(l.reasons) <= 4
       /\ \A i \in 1..Len(l.reasons) : IsStr(l.reasons[i]) /\ ~Blank(l.reasons[i])
       /\ SeqToSet(l.reasons) \subseteq SeqToSet(l.response.reasons.items)

Aggregated(f) ==
  (IF SourceNames[1] \in f.answered THEN SourceAnswer(SourceNames[1], f.meal_type) ELSE <<>>)
    \o (IF SourceNames[2] \in f.answered THEN SourceAnswer(SourceNames[2], f.meal_type)
        ELSE <<>>)

\* C15: get_recipes counts a source that raises for zero candidates and
\* raises RecipeSourceError only if every queried source failed; if one
\* queried source answered, even with an empty list, it returns the
\* aggregated list.
SourceFailureIsolated ==
  recipe_service.fetched.called =>
    /\ recipe_service.fetched.outcome = "raised"
         => /\ recipe_service.fetched.queried # {}
            /\ recipe_service.fetched.answered = {}
    /\ recipe_service.fetched.answered # {}
         => /\ recipe_service.fetched.outcome = "returned"
            /\ recipe_service.fetched.recipes = Aggregated(recipe_service.fetched)


\* The slots of a day in their order.
SlotOrder == <<"breakfast", "lunch", "dinner", "snack">>
SlotIndex(meal) == CHOOSE i \in 1..Len(SlotOrder) : SlotOrder[i] = meal
SlotsOf(meals_per_day) ==
  {"breakfast", "lunch", "dinner"} \cup (IF meals_per_day > 3 THEN {"snack"} ELSE {})

\* C16: the emitted plan holds `days` daily plans numbered 1..days in order;
\* the meals of a day come in the order breakfast, lunch, dinner, snack, the
\* snack only if meals-per-day > 3, at most one per slot; a slot without
\* candidates is skipped and the slots and days after it are still handled.
PlanShape ==
  pc = "done" =>
    /\ Len(meal_plan) = parsed.days
    /\ \A d \in 1..Len(meal_plan) :
         /\ meal_plan[d].day = d
         /\ \A i \in 1..Len(meal_plan[d].meals) :
              meal_plan[d].meals[i].meal_type \in SlotsOf(parsed.meals_per_day)
         /\ \A i, j \in 1..Len(meal_plan[d].meals) :
              i < j => SlotIndex(meal_plan[d].meals[i].meal_type)
                         < SlotIndex(meal_plan[d].meals[j].meal_type)
         /\ \A m \in SlotsOf(parsed.meals_per_day) :
              TimeFilter(m).candidates # <<>> => MealsOf(meal_plan[d], m) # {}

\* C16 happens: a two-day plan of four meals a day in which the breakfasts
\* were skipped and the slots after them filled.
SkippedSlotPlanEmitted ==
  /\ pc = "done"
  /\ parsed.days = 2
  /\ parsed.meals_per_day = 4
  /\ \A d \in 1..2 : /\ MealsOf(meal_plan[d], "breakfast") = {}
                     /\ Len(meal_plan[d].meals) = 3
                     /\ meal_plan[d].meals[3].meal_type = "snack"
  /\ Warning("No candidates found", "breakfast", 2) \in SeqToSet(warnings)


\* The slots and the days the run has gone through so far.
SlotsHandled ==
  day_offset * Len(meal_types) + (m_idx - 1) + (IF pc = "slot" THEN 0 ELSE 1)
DaysBatched == day_offset + (IF pc \in {"slot", "endday"} THEN 0 ELSE 1)

\* C17: during one plan generation the remote rerank calls number at most one
\* per slot in per-meal mode, one per day in per-day mode and one in all in
\* per-plan mode, and none when reranking is disabled or no backend is
\* configured.
RemoteCallsBounded ==
  /\ ~rerank_enabled \/ ~client => remote_calls = 0
  /\ rerank_mode = "per_meal" => remote_calls <= SlotsHandled
  /\ rerank_mode = "per_day" => remote_calls <= DaysBatched
  /\ rerank_mode = "per_plan" => remote_calls <= 1
  /\ rerank_mode = "per_plan" /\ pc \notin {"finalize", "summary", "done", "error"}
       => remote_calls = 0

\* C17 happens: a per-day plan of two days was returned after two batched
\* calls.
TwoDaysTwoCalls ==
  /\ pc = "done"
  /\ rerank_mode = "per_day"
  /\ parsed.days = 2
  /\ remote_calls = 2


\* C18: every remote rerank call is bounded by a timeout: also when the
\* backend never answers, the call is abandoned and plan generation goes on
\* to its end; no run is left for ever in a call (pc = "blocked", a state no
\* step leaves).
RemoteCallAbandoned == pc # "blocked"


\* C19: validate raises 400 DURATION_LIMIT_EXCEEDED exactly when days > 7,
\* whatever the diets; otherwise 409 CONFLICTING_DIETS exactly when the diets
\* hold both members of an incompatible pair; otherwise nothing; and a
\* rejected request has fetched no candidates.
Conflicting(diets) ==
  \/ {"vegan", "pescatarian"} \subseteq diets
  \/ {"vegan", "keto"} \subseteq diets
  \/ {"vegetarian", "paleo"} \subseteq diets

ExtractedDurationClamped ==
  pc # "request" /\ ~client =>
    /\ parsed.days \in 1..7
    /\ query.week = "" /\ query.stated # <<>> =>
         parsed.days = Min(Max(query.stated[1], 1), 7)
\* C21: get_recipes consults exactly the registered sources named in the
\* request's source list (Local alone when the list is empty): it invokes
\* each of them unless a fresh cache entry answers for it, and it invokes no
\* source that is not named.
Named(sources) == IF sources = {} THEN {"Local"} ELSE sources

FreshFor(name, meal_type) ==
  \E e \in recipe_service.cache :
    e.key = <<name, meal_type>> /\ now - e.timestamp < 300

OnlyNamedSourcesQueriedStep ==
  recipe_service'.fetched.called /\ pc' = "recipes" =>
    /\ recipe_service'.fetched.queried
         = Named(recipe_service'.sources) \cap {"Local", "TheMealDB"}
    /\ recipe_service'.calls \subseteq Named(recipe_service'.sources)
    /\ recipe_service'.calls
         = {n \in recipe_service'.fetched.queried :
              ~FreshFor(n, recipe_service'.fetched.meal_type)}

ConfigDefaulted ==
  /\ pc # "error"
  /\ pc = "constructed" =>
       /\ environ.RERANK_ENABLED \notin {"true", "True", "false"} => rerank_enabled = TRUE
       /\ environ.RERANK_TOP_K \notin {"10", "5", " 7 "} => rerank_top_k = 10
       /\ environ.RERANK_MODE \notin {"per_meal", "per_day", "per_plan"}
            => rerank_mode = "per_meal"
  /\ (/\ pc \in {"reranker", "constructed"}
      /\ \/ environ.file.kind # "object"
         \/ environ.file.rerank_cache_ttl_seconds \notin {<<"int", 1>>, <<"str", "120">>})
       => cache_ttl_seconds = 86400

\* C23: for non-negative macros of the day and of the candidate the penalty
\* is never negative, is zero when the hypothetical total of protein, carbs
\* and fat is zero, and is otherwise zero exactly when the protein share is
\* within 20-45%, the carbs share within 25-60% and the fat share within
\* 15-40% of that total.
PenaltyZeroInRange ==
  applied.done =>
    LET protein == day_macros.protein + applied.nutrition.protein
        carbs == day_macros.carbs + applied.nutrition.carbs
        fat == day_macros.fat + applied.nutrition.fat
        total == protein + carbs + fat
    IN /\ applied.penalty[2] > 0
       /\ applied.penalty[1] >= 0
       /\ total = 0 => applied.penalty[1] = 0
       /\ total > 0 =>
            (applied.penalty[1] = 0
               <=> /\ 100 * protein >= 20 * total /\ 100 * protein <= 45 * total
                   /\ 100 * carbs >= 25 * total /\ 100 * carbs <= 60 * total
                   /\ 100 * fat >= 15 * total /\ 100 * fat <= 40 * total)

\* A hypothetical total with every share on a bound of its range (45%, 40%,
\* 15%), and no penalty.
SharesOnBoundsNoPenalty ==
  /\ applied.done
  /\ day_macros.protein + applied.nutrition.protein = 9
  /\ day_macros.carbs + applied.nutrition.carbs = 8
  /\ day_macros.fat + applied.nutrition.fat = 3
  /\ applied.penalty[1] = 0

\* C24: in every rerank mode and for every backend response, a recipe that
\* was already emitted for an earlier slot of the plan is emitted again only
\* for a slot whose primary pool was empty and for which an applied fallback
\* was recorded; no recipe is repeated while the slot's ranked list holds a
\* recipe not yet emitted.
MealIds(meals) == {meals[i].recipe : i \in 1..Len(meals)}
PlanIds(plan) == UNION {MealIds(plan[d].meals) : d \in 1..Len(plan)}
EmittedSoFar == PlanIds(meal_plan) \cup MealIds(daily_meals) \cup MealIds(fin.daily_meals)

RepeatOnlyAfterFallbackStep ==
  (/\ last'.kind \in {"slot", "final"}
   /\ last'.committed # None
   /\ last'.outcome # "raised"
   /\ daily_meals' # daily_meals \/ fin'.daily_meals # fin.daily_meals
   /\ last'.committed \in EmittedSoFar)
    => /\ \A i \in 1..Len(last'.ranked) : last'.ranked[i].id \in EmittedSoFar
       /\ \E i \in 1..Len(defaults_applied') :
            /\ defaults_applied'[i].kind = "Reused recipe pool"
            /\ defaults_applied'[i].day = last'.slot[1]
            /\ defaults_applied'[i].meal_type = last'.slot[2]

RepeatOnlyAfterFallback == [][RepeatOnlyAfterFallbackStep]_vars

\* C25: when a meal-specific time limit applies to a slot and a candidate's
\* preparation time is within it, the recipe committed for the slot is within
\* the limit, in every fallback tier and rerank mode; when no candidate is
\* within the limit, a relaxation warning is recorded for the slot and the
\* selection goes over the unfiltered candidates.
SlotLimit == _extract_meal_time_limit(parsed.preferences, last.slot[2])
WithinLimit == {id \in SeqToSet(get_recipes(last.slot[2])) : Recipe(id).ready_in_minutes <= SlotLimit}
Relaxing == [kind |-> "relaxing time constraint", meal_type |-> last.slot[2], day |-> last.slot[1]]

TimeLimitKept ==
  last.kind \in {"slot", "provisional", "final"} /\ SlotLimit # 0 =>
    /\ WithinLimit # {} /\ last.committed # None =>
         Recipe(last.committed).ready_in_minutes <= SlotLimit
    /\ WithinLimit = {} =>
         /\ \E i \in 1..Len(warnings) : warnings[i] = Relaxing
         /\ last.kind # "final" => last.candidates = get_recipes(last.slot[2])
         /\ last.committed # None => last.committed \in SeqToSet(get_recipes(last.slot[2]))

\* A quick lunch filled from a fallback tier with a recipe within the limit.
QuickLunchFromFallback ==
  /\ last.kind = "slot"
  /\ last.slot[2] = "lunch"
  /\ SlotLimit = 20
  /\ last.tier > 0
  /\ last.committed = "B"

\* C26: in every rerank mode the previous-day context that the candidates of
\* day d+1 were scored with is exactly the ingredient tokens and the dish
\* types of the recipes that the final plan holds for day d (empty for day 1).
DayTokens(meals) == UNION {Recipe(meals[i].recipe).ptokens : i \in 1..Len(meals)}
DayDishTypes(meals) == UNION {Recipe(meals[i].recipe).dish_types : i \in 1..Len(meals)}

ContextIsPreviousDay ==
  pc = "done" =>
    /\ scored_with[1].recent_ingredient_tokens = {}
    /\ scored_with[1].recent_dish_types = {}
    /\ \A d \in 2..Len(meal_plan) :
         /\ scored_with[d].recent_ingredient_tokens = DayTokens(meal_plan[d - 1].meals)
         /\ scored_with[d].recent_dish_types = DayDishTypes(meal_plan[d - 1].meals)

\* C27: the recent-recipe history never holds more than two days' id lists,
\* and at the start of every day d the recent ids that the first fallback
\* tier excludes are exactly the ids of the recipes committed on days d-1
\* and d-2.
CommittedOn(d) == IF d >= 1 /\ d <= Len(meal_plan) THEN MealIds(meal_plan[d].meals) ELSE {}

RecentIdsAreLastTwoDays ==
  /\ Len(recent_recipe_history) <= 2
  /\ pc = "done" =>
       \A d \in 1..Len(meal_plan) :
         scored_with[d].recent_ids = CommittedOn(d - 1) \cup CommittedOn(d - 2)


\* ---- C28
\* The orders in which a source may list the recipes of `fetched`.
Orders(fetched) ==
  {o \in [1..Len(fetched) -> SeqToSet(fetched)] :
     \A i, j \in 1..Len(fetched) : i # j => o[i] # o[j]}

\* Lines 134-167 of generate_meal_plan for the slot, from the list the source
\* returned: the time filter, the recipes not yet used, the pick and its
\* retry on the fallback pool.
PickFrom(fetched) ==
  LET time_limit == _extract_meal_time_limit(parsed.preferences, m_type)
      limited == Limited(fetched, time_limit)
      listed == IF time_limit # 0 /\ limited # <<>> THEN limited ELSE fetched
      available == SelectSeq(listed, LAMBDA id : id \notin used_recipes)
      pick == Retried(_pick_best_recipe(available, context, meal_slot, history, constraints,
                                        rerank_enabled, Absent),
                      FallbackPool(listed), Absent)
  IN [recipe |-> pick.recipe,
      warnings |-> (IF time_limit # 0 /\ limited = <<>>
                      THEN <<Warning("relaxing time constraint", m_type, day_offset + 1)>>
                    ELSE <<>>)
                   \o (IF pick.recipe = None THEN no_candidates_warning ELSE <<>>),
      defaults |-> IF pick.recipe # None /\ pick.tier > 0 THEN reused_pool ELSE <<>>]

SameForEveryOrderStep ==
  (pc = "slot" /\ ~rerank_enabled /\ last'.kind = "slot" /\ last'.slot = meal_slot) =>
    \A fetched \in Orders(get_recipes(m_type)) :
      /\ last'.committed = PickFrom(fetched).recipe
      /\ warnings' = warnings \o PickFrom(fetched).warnings
      /\ defaults_applied' = defaults_applied \o PickFrom(fetched).defaults

\* C28: with reranking disabled, a slot commits the same recipe and adds the
\* same warnings and applied fallbacks whatever the order in which the source
\* lists its recipes; the state a slot starts from holds nothing of that
\* order, so two runs that differ only in it emit the same plan.
SameForEveryOrder == [][SameForEveryOrderStep]_vars

\* C28 happens: reranking is disabled and a slot whose source lists two
\* recipes of equal score committed the one of the smaller id, which the
\* source lists second.
TiedListedSecondCommitted ==
  /\ ~rerank_enabled
  /\ last.kind = "slot"
  /\ Len(last.ranked) >= 2
  /\ FracEq(last.ranked[1].score, last.ranked[2].score)
  /\ last.committed = last.ranked[1].id
  /\ \E i, j \in 1..Len(SourceOrder) :
       i < j /\ SourceOrder[j] = last.committed /\ SourceOrder[i] = last.ranked[2].id


\* ------------------------------ the reranker cache under concurrent requests
\* What a step of _cache_get, _cache_set or the clock leaves alone.
run_vars == <<pc, error, day_offset, m_idx, meal_plan, daily_meals, warnings,
              defaults_applied, used_recipes, used_today, prev_day_ingredient_tokens,
              prev_day_dish_types, day_ingredient_tokens, day_dish_types, day_macros,
              recent_recipe_history, selected_titles, day_entries, plan_batch_days,
              snapshot, fin, summary, last, svc, recipe_service, remote_calls, scored_with>>
setting_vars == <<rerank_mode, rerank_enabled, rerank_top_k, client, parsed, query, environ,
                  applied, cache_ttl_seconds>>

\* _cache_get, line "item = self.cache.get(key)" and the test "if not item",
\* which returns None.
LookupRead(t) ==
  /\ threads[t].pc = "idle"
  /\ threads' = [threads EXCEPT ![t] =
                   IF CachedKey \in CacheKeys(cache)
                     THEN [pc |-> "got", item |-> CacheItem(cache, CachedKey), entry |-> NoItem]
                   ELSE IdleThread]
  /\ UNCHANGED <<cache, now, rate_limit_state, http, run_vars, setting_vars>>

\* _cache_get, the test item["expires_at"] < time.time() and, for an item
\* that has not expired, the return of item["value"].
LookupCompare(t) ==
  /\ threads[t].pc = "got"
  /\ threads' = [threads EXCEPT ![t] =
                   IF threads[t].item.expires_at < now
                     THEN [pc |-> "expired", item |-> threads[t].item, entry |-> NoItem]
                   ELSE IdleThread]
  /\ UNCHANGED <<cache, now, rate_limit_state, http, run_vars, setting_vars>>

\* _cache_get, self.cache.pop(key, None) and the return of None: the pop
\* removes whatever the key holds by now, and nothing when it holds nothing.
LookupEvict(t) ==
  /\ threads[t].pc = "expired"
  /\ cache' = {e \in cache : e.key # CachedKey}
  /\ threads' = [threads EXCEPT ![t] = IdleThread]
  /\ UNCHANGED <<now, rate_limit_state, http, run_vars, setting_vars>>

\* _cache_set, the dict built with expires_at = time.time() + ttl.
StoreStamp(t) ==
  /\ threads[t].pc = "idle"
  /\ \E value \in CachedValues :
       threads' = [threads EXCEPT ![t] =
                     [pc |-> "stamped", item |-> NoItem,
                      entry |-> [key |-> CachedKey, value |-> value,
                                 expires_at |-> now + cache_ttl_seconds]]]
  /\ UNCHANGED <<cache, now, rate_limit_state, http, run_vars, setting_vars>>

\* _cache_set, the assignment self.cache[key] = ...
StoreAssign(t) ==
  /\ threads[t].pc = "stamped"
  /\ cache' = {e \in cache : e.key # CachedKey} \cup {threads[t].entry}
  /\ threads' = [threads EXCEPT ![t] = IdleThread]
  /\ UNCHANGED <<now, rate_limit_state, http, run_vars, setting_vars>>

\* time.time() moves on between two steps.
ClockTick ==
  /\ pc = "threads"
  /\ now < MaxClock
  /\ now' = now + 1
  /\ UNCHANGED <<cache, threads, rate_limit_state, http, run_vars, setting_vars>>

\* The reranker is constructed and serves requests; the planner's locals are
\* those of no run.
InitThreads ==
  /\ rerank_mode = "per_meal"
  /\ rerank_enabled = TRUE
  /\ rerank_top_k = DEFAULT_RERANK_TOP_K
  /\ client = TRUE
  /\ parsed = [days |-> 1, meals_per_day |-> 3, preferences |-> <<>>, exclude |-> {}]
  /\ query = NoQuery
  /\ cache_ttl_seconds = MaxTtl
  /\ cache = {}
  /\ now = 0
  /\ pc = "threads"
  /\ Locals
  /\ Outside

NextThreads ==
  \/ \E t \in Threads : LookupRead(t)
  \/ \E t \in Threads : LookupCompare(t)
  \/ \E t \in Threads : LookupEvict(t)
  \/ \E t \in Threads : StoreStamp(t)
  \/ \E t \in Threads : StoreAssign(t)
  \/ ClockTick

SpecThreads == InitThreads /\ [][NextThreads]_vars

\* ---- C29
\* A lookup that returns a value returns that of an item not yet expired.
ReturnsUnexpired(t) ==
  (threads[t].pc = "got" /\ threads'[t].pc = "idle") => threads[t].item.expires_at >= now

\* The pop of a lookup removes no entry that has not expired.
EvictsExpiredOnly(t) ==
  (threads[t].pc = "expired" /\ threads'[t].pc = "idle") =>
    \A e \in cache \ cache' : e.expires_at < now

CacheToleratesThreadsStep ==
  \A t \in Threads :
    /\ ReturnsUnexpired(t)
    /\ threads'[t].pc # "raised"
    /\ EvictsExpiredOnly(t)

\* C29: when the lookups and stores of concurrent requests interleave, no
\* lookup returns a value whose expiry has passed, no lookup or store raises,
\* and the lazy eviction of a lookup removes no unexpired entry that a store
\* wrote in place of the expired one.
CacheToleratesThreads == [][CacheToleratesThreadsStep]_vars


\* ------------------------------------------------- main.rate_limit_requests
\* A window test that takes the window for over at its last second already.
WindowOverAt(time, window_start) == time - window_start >= RATE_LIMIT_WINDOW_SECONDS

\* Line 22: now - state["window_start"] > RATE_LIMIT_WINDOW_SECONDS.
WindowOver(time, window_start) == time - window_start > RATE_LIMIT_WINDOW_SECONDS

\* Lines 20-23: the state the request counts in.
WindowFor(state, time) ==
  IF ~state.stored \/ WindowOver(time, state.window_start)
    THEN [stored |-> TRUE, window_start |-> time, count |-> 0]
  ELSE state

\* rate_limit_requests for a request of client_ip (lines 17-36); nothing
\* awaits before call_next, so the middleware runs as one step.
RateLimitRequest(client_ip) ==
  /\ pc = "serving"
  /\ LET state == WindowFor(rate_limit_state[client_ip], now)
          opened == /\ rate_limit_state[client_ip].stored
                    /\ WindowOver(now, rate_limit_state[client_ip].window_start)
     IN IF state.count >= RATE_LIMIT
          THEN /\ http' = [client_ip |-> client_ip, status |-> 429, forwarded |-> FALSE,
                           opened |-> opened, refused |-> http.refused \cup {client_ip}]
               /\ rate_limit_state' = rate_limit_state
        ELSE /\ http' = [client_ip |-> client_ip, status |-> 200, forwarded |-> TRUE,
                         opened |-> opened, refused |-> http.refused]
             /\ rate_limit_state' =
                  [rate_limit_state EXCEPT ![client_ip] = [state EXCEPT !.count = @ + 1]]
  /\ UNCHANGED <<cache, now, threads, run_vars, setting_vars>>

\* time.time() between two requests: a window's length, or a second more.
WindowTick ==
  /\ pc = "serving"
  /\ \E seconds \in {RATE_LIMIT_WINDOW_SECONDS, RATE_LIMIT_WINDOW_SECONDS + 1} :
       /\ now + seconds <= MaxWindowClock
       /\ now' = now + seconds
  /\ UNCHANGED <<cache, threads, rate_limit_state, http, run_vars, setting_vars>>

\* The application is imported and serves requests.
InitLimiter ==
  /\ rerank_mode = "per_meal"
  /\ rerank_enabled = FALSE
  /\ rerank_top_k = DEFAULT_RERANK_TOP_K
  /\ client = FALSE
  /\ parsed = [days |-> 1, meals_per_day |-> 3, preferences |-> <<>>, exclude |-> {}]
  /\ query = NoQuery
  /\ cache_ttl_seconds = 0
  /\ cache = {}
  /\ now = 0
  /\ pc = "serving"
  /\ Locals
  /\ Outside

NextLimiter ==
  \/ \E client_ip \in ClientIps : RateLimitRequest(client_ip)
  \/ WindowTick

SpecLimiter == InitLimiter /\ [][NextLimiter]_vars

\* ---- C30
\* The request of this step, if any, came from client_ip.
AnsweredTo(client_ip) ==
  http'.client_ip = client_ip /\ (http' # http \/ rate_limit_state' # rate_limit_state)

AtMostLimitPerWindowStep ==
  \A client_ip \in ClientIps :
    LET before == rate_limit_state[client_ip]
        after == rate_limit_state'[client_ip]
    IN /\ after.count <= RATE_LIMIT
       /\ (after # before /\ after.window_start = before.window_start /\ before.stored) =>
            after.count = before.count + 1 /\ AnsweredTo(client_ip) /\ http'.forwarded
       /\ (before.stored /\ before.count = RATE_LIMIT
            /\ now - before.window_start <= RATE_LIMIT_WINDOW_SECONDS) =>
            /\ after = before
            /\ AnsweredTo(client_ip) => http'.status = 429 /\ ~http'.forwarded
       /\ (before.stored /\ now - before.window_start > RATE_LIMIT_WINDOW_SECONDS
            /\ AnsweredTo(client_ip)) =>
            /\ after = [stored |-> TRUE, window_start |-> now, count |-> 1]
            /\ http'.forwarded

\* C30: for each client address at most 60 requests are admitted per window;
\* once 60 are admitted, a request arriving no later than 60 s after the
\* window start is answered 429, is not forwarded and leaves the stored
\* counter as it is; the first request arriving more than 60 s after the
\* window start opens a new window with count 1.
AtMostLimitPerWindow == [][AtMostLimitPerWindowStep]_vars

\* C30 happens: a client that was answered 429 in a full window has opened a
\* new window with its first request after the old one was over.
RefusedThenNewWindow ==
  /\ http.opened
  /\ http.forwarded
  /\ http.client_ip \in http.refused
  /\ rate_limit_state[http.client_ip].count = 1
  /\ rate_limit_state[http.client_ip].window_start = now

====================
